---- MODULE Spec2Model ----
(***************************************************************************)
(* State-machine model of the steganography-detection services of          *)
(* scanbane (server/python_services).                                      *)
(*                                                                         *)
(* Numbers that the Python code keeps as floats are modelled as exact      *)
(* rationals <<numerator, denominator>> in lowest terms; NaN is <<0, 0>>   *)
(* and every ordered comparison with NaN is false, as in IEEE-754.         *)
(* Result dictionaries are records whose domain is the set of keys the     *)
(* Python dictionary holds ("error" \in DOMAIN v  <=>  the verdict carries *)
(* an error field).                                                        *)
(***************************************************************************)
EXTENDS Integers, Sequences, FiniteSets, TLC

(***************************************************************************)
(* Bounds of the model.                                                    *)
(***************************************************************************)
\* LSB planes of every size 0..SmallPlane are enumerated exhaustively ...
SmallPlane == 5
\* ... together with every plane of exactly BigPlane samples/pixels, which is
\* large enough for every combination of chi-square and entropy bands.
BigPlane == 500
\* Largest frame count a container reports / a stream delivers in the model.
MaxStream == 12

(***************************************************************************)
(* Float arithmetic as exact rationals.                                    *)
(***************************************************************************)
RECURSIVE GCD(_, _)
GCD(a, b) == IF b = 0 THEN a ELSE GCD(b, a % b)

Abs(n) == IF n < 0 THEN -n ELSE n

Rat(n, d) ==
    LET g == GCD(Abs(n), d) IN <<n \div g, d \div g>>

NaN == <<0, 0>>

IsNaN(x) == x[2] = 0

RLt(a, b) == ~IsNaN(a) /\ ~IsNaN(b) /\ a[1] * b[2] < b[1] * a[2]

RGt(a, b) == RLt(b, a)

RLe(a, b) == ~IsNaN(a) /\ ~IsNaN(b) /\ a[1] * b[2] <= b[1] * a[2]

RGe(a, b) == RLe(b, a)

RAdd(a, b) == Rat(a[1] * b[2] + b[1] * a[2], a[2] * b[2])

RSub(a, b) == Rat(a[1] * b[2] - b[1] * a[2], a[2] * b[2])

RMul(a, b) == Rat(a[1] * b[1], a[2] * b[2])

\* a / n for a positive integer n
RDivInt(a, n) == Rat(a[1], a[2] * n)

RAbs(a) == <<Abs(a[1]), a[2]>>

\* Python's min(a, b): b if b < a else a
RMin(a, b) == IF RLt(b, a) THEN b ELSE a

\* Python's max(a, b): b if b > a else a
RMax(a, b) == IF RGt(b, a) THEN b ELSE a

Zero == Rat(0, 1)

One == Rat(1, 1)

\* a decimal literal with three places, e.g. Milli(50) = 0.05
Milli(n) == Rat(n, 1000)

(***************************************************************************)
(* File names and extensions.  A name is a sequence of characters.         *)
(***************************************************************************)
UpperToLower ==
    [A |-> "a", E |-> "e", G |-> "g", I |-> "i", J |-> "j", M |-> "m",
     N |-> "n", P |-> "p", V |-> "v", W |-> "w"]

LowerChar(ch) == IF ch \in DOMAIN UpperToLower THEN UpperToLower[ch] ELSE ch

\* The extension compared as it is written.
LowerAsWritten(s) == s

\* str.lower()
Lower(s) == [i \in 1..Len(s) |-> LowerChar(s[i])]

\* str.rfind(ch) with 0-based result, -1 when absent
RFind(s, ch) ==
    LET hits == {i \in 1..Len(s) : s[i] = ch}
    IN  IF hits = {} THEN -1 ELSE (CHOOSE i \in hits : \A j \in hits : j <= i) - 1

\* os.path.splitext(name)[-1]: the text from the last dot of the last path
\* component, unless only dots precede it in that component.
SplitExt(s) ==
    LET sepIndex == RFind(s, "/")
        dotIndex == RFind(s, ".")
    IN  IF dotIndex > sepIndex
           /\ \E k \in (sepIndex + 1)..(dotIndex - 1) : s[k + 1] # "."
        THEN SubSeq(s, dotIndex + 1, Len(s))
        ELSE <<>>

AudioExts ==
    { <<".", "m", "p", "3">>, <<".", "w", "a", "v">>, <<".", "a", "a", "c">>,
      <<".", "f", "l", "a", "c">>, <<".", "o", "g", "g">>, <<".", "a", "m", "r">> }

VideoExts ==
    { <<".", "m", "p", "4">>, <<".", "a", "v", "i">>, <<".", "m", "k", "v">>,
      <<".", "m", "o", "v">>, <<".", "w", "e", "b", "m">>, <<".", "f", "l", "v">> }

ImageExts ==
    { <<".", "j", "p", "g">>, <<".", "j", "p", "e", "g">>, <<".", "p", "n", "g">>,
      <<".", "g", "i", "f">>, <<".", "w", "e", "b", "p">>, <<".", "b", "m", "p">>,
      <<".", "t", "i", "f", "f">>, <<".", "t", "i", "f">>, <<".", "i", "c", "o">>,
      <<".", "h", "e", "i", "c">>, <<".", "h", "e", "i", "f">>, <<".", "s", "v", "g">>,
      <<".", "a", "v", "i", "f">> }

\* The file names the model calls the entry points with.
FileNames ==
    { <<>>,                                              \* empty name
      <<"a", ".", "m", "p", "3">>,
      <<"a", ".", "M", "P", "3">>,
      <<"a", ".", "W", "a", "v">>,
      <<"v", ".", "A", "v", "i">>,
      <<"i", ".", "J", "P", "E", "G">>,
      <<"i", ".", "m", "p", "4", ".", "g", "i", "f">>,   \* two dots
      <<".", "w", "a", "v">>,                            \* leading dot only
      <<"n", "o", "e", "x", "t">>,
      <<"a", ".">>,
      <<"a", ".", "m", "4", "v">>,
      <<"a", ".", "e", "x", "e">>,
      <<"d", ".", "m", "p", "3", "/", "f">>,             \* dot in the directory
      <<"a", ".", "m", "p", "3", ".", "t", "x", "t">> }

\* The media category line 503-527 dispatches an extension to.
MediaTypeOf(ext) ==
    IF ext \in AudioExts THEN "audio"
    ELSE IF ext \in VideoExts THEN "video"
    ELSE IF ext \in ImageExts THEN "image"
    ELSE "unknown"

(***************************************************************************)
(* LSB planes and the statistical tests.  Chi-square and entropy read only *)
(* the histogram of the plane, so a plane is the pair <<zeros, ones>> of   *)
(* its value counts.                                                       *)
(***************************************************************************)
PlaneSizes == (0..SmallPlane) \cup {BigPlane}

Planes == UNION {{<<a, n - a>> : a \in 0..n} : n \in PlaneSizes}

PlaneLen(pl) == pl[1] + pl[2]

\* len(values) of np.unique(flat, return_counts=True)
NumValues(pl) == (IF pl[1] > 0 THEN 1 ELSE 0) + (IF pl[2] > 0 THEN 1 ELSE 0)

\* scipy.stats.chi2.sf(stat, df) for the degrees of freedom an LSB plane can
\* give (0 or 1).  df = 0 is outside the distribution's domain: NaN.  For
\* df = 1 the value is quantised to one representative per interval between
\* the levels the code compares p against (0.001, 0.01, 0.05, 0.1), using the
\* critical values 10.82757, 6.63490, 3.84146, 2.70554 of the distribution, so
\* every comparison of the code has the outcome it has on the exact value;
\* sf(0) = 1 exactly.
Chi2Sf(stat, df) ==
    IF df = 0 THEN NaN
    ELSE IF stat[1] = 0 THEN One
    ELSE IF stat[1] > 11 * stat[2] THEN Rat(1, 2000)
    ELSE IF stat[1] * 100000 > 1082757 * stat[2] THEN Rat(1, 2000)
    ELSE IF stat[1] * 100000 > 663490 * stat[2] THEN Rat(5, 1000)
    ELSE IF stat[1] * 100000 > 384146 * stat[2] THEN Rat(3, 100)
    ELSE IF stat[1] * 100000 > 270554 * stat[2] THEN Rat(7, 100)
    ELSE Rat(1, 2)

\* scipy.stats.chisquare(counts, f_exp): sum (obs - exp)^2 / exp over the
\* counts, and the p-value with len(counts) - 1 degrees of freedom.  With the
\* two counts of a plane and exp = total / 2 the sum is (zeros - ones)^2 / total.
ChiSquare(counts, expected) ==
    LET stat == IF Len(counts) = 2
                THEN RAdd(Rat((counts[1] * expected[2] - expected[1])
                                * (counts[1] * expected[2] - expected[1]),
                              expected[1] * expected[2]),
                          Rat((counts[2] * expected[2] - expected[1])
                                * (counts[2] * expected[2] - expected[1]),
                              expected[1] * expected[2]))
                ELSE Rat((counts[1] * expected[2] - expected[1])
                           * (counts[1] * expected[2] - expected[1]),
                         expected[1] * expected[2])
    IN  <<stat, Chi2Sf(stat, Len(counts) - 1)>>

\* The counts np.unique returns: only the values that occur.
UniqueCounts(pl) ==
    IF pl[1] > 0 /\ pl[2] > 0 THEN <<pl[1], pl[2]>>
    ELSE IF pl[1] > 0 THEN <<pl[1]>>
    ELSE IF pl[2] > 0 THEN <<pl[2]>>
    ELSE <<>>

\* chi_square_test of advanced_media_steganography: expected is
\* len(flat) / len(values) per value; an empty plane divides by zero, which
\* the except clause turns into (0, 1.0).  `raises` is a failure of the
\* library call itself.  Returns <<chi, p>>.
ChiSquareTestMedia(pl, raises) ==
    IF raises \/ NumValues(pl) = 0 THEN <<Zero, One>>
    ELSE ChiSquare(UniqueCounts(pl), Rat(PlaneLen(pl), NumValues(pl)))

\* skimage.measure.shannon_entropy of a plane: the base-2 entropy H(q) of the
\* value histogram, q the share of the rarer value.  H(0) = 0 and H(1/2) = 1
\* exactly (also 0 for an empty plane); otherwise the value is quantised to
\* one representative per interval between the levels the code compares it
\* against (0.9, 0.95, 0.97, 0.98), H being increasing on [0, 1/2] with
\* H(q) = 0.9, 0.95, 0.97, 0.98 at q = 0.316019, 0.369128, 0.398388, 0.416937.
ShannonEntropy(pl) ==
    LET n == PlaneLen(pl)
        m == IF pl[1] < pl[2] THEN pl[1] ELSE pl[2]
    IN  IF n = 0 \/ m = 0 THEN Zero
        ELSE IF 2 * m = n THEN One
        ELSE IF m * 1000000 > 416937 * n THEN Rat(99, 100)
        ELSE IF m * 1000000 > 398388 * n THEN Rat(975, 1000)
        ELSE IF m * 1000000 > 369128 * n THEN Rat(96, 100)
        ELSE IF m * 1000000 > 316019 * n THEN Rat(93, 100)
        ELSE Rat(1, 2)

\* image_entropy: shannon_entropy, 0.0 when it raises
ImageEntropy(pl, raises) == IF raises THEN Zero ELSE ShannonEntropy(pl)

\* The two statistics of a plane, as the tests compute them
PlaneSignature(pl) == <<ChiSquareTestMedia(pl, FALSE)[2], ShannonEntropy(pl)>>

\* The planes of the large rasters: the single-valued ones and, of the
\* others, those whose statistics differ from a neighbour's, i.e. the planes
\* on either side of every threshold the code compares the statistics with.
EdgePlanes ==
    {q \in Planes :
        /\ PlaneLen(q) = BigPlane
        /\ \/ q[1] = 0
           \/ q[2] = 0
           \/ PlaneSignature(q) # PlaneSignature(<<q[1] - 1, q[2] + 1>>)
           \/ PlaneSignature(q) # PlaneSignature(<<q[1] + 1, q[2] - 1>>)}

\* The planes the tests are fed: every small one and the large ones above.
StatPlanes == {q \in Planes : PlaneLen(q) < BigPlane} \cup EdgePlanes

\* Python's None
None == [isNone |-> TRUE]

\* dict[key] = value
SetKey(d, key, value) == (key :> value) @@ d

HasKey(d, key) == key \in DOMAIN d

(***************************************************************************)
(* analyze_audio_lsb                                                       *)
(***************************************************************************)
\* The grading without the reset of is_suspicious in its last branch.
AudioVerdictKeepsFlag(chi_p, entropy_val) ==
    LET is_suspicious == RLt(chi_p, Milli(50)) \/ RGt(entropy_val, Milli(970))
        confidence ==
            IF RLt(chi_p, Milli(10)) /\ RGt(entropy_val, Milli(980)) THEN Milli(900)
            ELSE IF RLt(chi_p, Milli(50)) /\ RGt(entropy_val, Milli(970)) THEN Milli(700)
            ELSE IF RLt(chi_p, Milli(100)) /\ RGt(entropy_val, Milli(950)) THEN Milli(500)
            ELSE Milli(300)
    IN  [hasSteganography |-> is_suspicious,
         confidence |-> confidence,
         chi_square_p |-> chi_p,
         lsb_entropy |-> entropy_val,
         detectionMethods |-> <<"LSB Analysis", "Chi-Square Test", "Entropy Analysis">>]

\* Lines 135-155: the verdict from the two statistics of the sample LSBs.
AudioVerdict(chi_p, entropy_val) ==
    LET is_suspicious == RLt(chi_p, Milli(50)) \/ RGt(entropy_val, Milli(970))
        graded ==
            IF RLt(chi_p, Milli(10)) /\ RGt(entropy_val, Milli(980))
            THEN <<is_suspicious, Milli(900)>>
            ELSE IF RLt(chi_p, Milli(50)) /\ RGt(entropy_val, Milli(970))
            THEN <<is_suspicious, Milli(700)>>
            ELSE IF RLt(chi_p, Milli(100)) /\ RGt(entropy_val, Milli(950))
            THEN <<is_suspicious, Milli(500)>>
            ELSE <<FALSE, Milli(300)>>
    IN  [hasSteganography |-> graded[1],
         confidence |-> graded[2],
         chi_square_p |-> chi_p,
         lsb_entropy |-> entropy_val,
         detectionMethods |-> <<"LSB Analysis", "Chi-Square Test", "Entropy Analysis">>]

\* An except clause that keeps a confidence.
ErrorVerdictKeepsConfidence(msg) ==
    [hasSteganography |-> FALSE, confidence |-> Milli(300), error |-> msg]

\* The verdict of an except clause: no detection, confidence 0, an error text.
ErrorVerdict(msg) ==
    [hasSteganography |-> FALSE, confidence |-> Zero, error |-> msg]

\* What decoding an audio file gives: the LSB plane of its samples, or a
\* failure of AudioSegment.from_file.
AudioDecodes == {[ok |-> FALSE]} \cup {[ok |-> TRUE, plane |-> pl] : pl \in StatPlanes}

\* analyze_audio_lsb (lines 123-162) on a decode outcome.
AnalyzeAudioLsb(dec) ==
    IF ~dec.ok THEN ErrorVerdict("audio")
    ELSE AudioVerdict(ChiSquareTestMedia(dec.plane, FALSE)[2],
                      ShannonEntropy(dec.plane))

(***************************************************************************)
(* analyze_video: confidence from the suspicious frames, blended with the  *)
(* verdict on the audio track.                                             *)
(***************************************************************************)
\* Line 222: a frame is suspicious
FrameSuspicious(chi_p, entropy_val) ==
    RLt(chi_p, Milli(50)) \/ RGt(entropy_val, Milli(970))

\* The grading whose lowest band reports no detection.
VideoConfidenceLowBandClean(suspicious_frames, n_frames) ==
    LET suspicious_ratio == Rat(suspicious_frames, n_frames)
    IN  IF RGt(suspicious_ratio, Milli(500))
        THEN <<TRUE, RAdd(Milli(700),
                          RMul(RSub(suspicious_ratio, Milli(500)), Milli(600)))>>
        ELSE IF RGt(suspicious_ratio, Milli(300))
        THEN <<TRUE, RAdd(Milli(500),
                          RMul(RSub(suspicious_ratio, Milli(300)), Rat(2, 1)))>>
        ELSE IF RGt(suspicious_ratio, Milli(100))
        THEN <<TRUE, RAdd(Milli(300),
                          RMul(RSub(suspicious_ratio, Milli(100)), Rat(2, 1)))>>
        ELSE <<FALSE, RMul(suspicious_ratio, Rat(3, 1))>>

\* Lines 238-255: <<has_steg, confidence>> from the suspicious frames among
\* n_frames > 0 analyzed frames.
VideoConfidence(suspicious_frames, n_frames) ==
    LET suspicious_ratio == Rat(suspicious_frames, n_frames)
    IN  IF RGt(suspicious_ratio, Milli(500))
        THEN <<TRUE, RAdd(Milli(700), RMul(RSub(suspicious_ratio, Milli(500)), Milli(600)))>>
        ELSE IF RGt(suspicious_ratio, Milli(300))
        THEN <<TRUE, RAdd(Milli(500), RMul(RSub(suspicious_ratio, Milli(300)), Rat(2, 1)))>>
        ELSE IF RGt(suspicious_ratio, Milli(100))
        THEN <<TRUE, RAdd(Milli(300), RMul(RSub(suspicious_ratio, Milli(100)), Rat(2, 1)))>>
        ELSE <<RGt(suspicious_ratio, Zero), RMul(suspicious_ratio, Rat(3, 1))>>

\* dict.get(key, default)
Get(d, key, default) == IF key \in DOMAIN d THEN d[key] ELSE default

\* The blend with the weights of video and audio exchanged.
BlendAudioSwapped(video, audio_result) ==
    LET blended ==
            IF audio_result # None /\ Get(audio_result, "hasSteganography", FALSE)
            THEN <<TRUE,
                   RDivInt(RAdd(video[2],
                                RMul(Get(audio_result, "confidence", Zero), Rat(2, 1))), 3)>>
            ELSE video
    IN  <<blended[1], RMin(blended[2], One)>>

\* The blend divided by 4 instead of by the sum of its weights.
BlendAudioQuarter(video, audio_result) ==
    LET blended ==
            IF audio_result # None /\ Get(audio_result, "hasSteganography", FALSE)
            THEN <<TRUE,
                   RDivInt(RAdd(RMul(video[2], Rat(2, 1)),
                                Get(audio_result, "confidence", Zero)), 4)>>
            ELSE video
    IN  <<blended[1], RMin(blended[2], One)>>

\* Lines 257-264: <<has_steg, confidence>> after the audio verdict is
\* considered and the confidence is capped.
BlendAudio(video, audio_result) ==
    LET blended ==
            IF audio_result # None /\ Get(audio_result, "hasSteganography", FALSE)
            THEN <<TRUE,
                   RDivInt(RAdd(RMul(video[2], Rat(2, 1)),
                                Get(audio_result, "confidence", Zero)), 3)>>
            ELSE video
    IN  <<blended[1], RMin(blended[2], One)>>

\* Lines 237-275: the verdict analyze_video returns for its frames.
VideoVerdict(suspicious_frames, n_frames, audio_result) ==
    LET final == BlendAudio(VideoConfidence(suspicious_frames, n_frames), audio_result)
    IN  [hasSteganography |-> final[1],
         confidence |-> final[2],
         framesAnalyzed |-> n_frames,
         suspiciousFrames |-> suspicious_frames,
         audioSteganography |-> audio_result,
         detectionMethods |-> <<"Frame LSB Analysis", "Chi-Square Test", "Entropy Analysis">>]

(***************************************************************************)
(* analyze_image of advanced_media_steganography: weighted scoring.        *)
(***************************************************************************)
\* Number of (block, mask) groups of the rasters RS analysis is fed in the model.
RsGroups == 40

\* <<regular groups, singular groups>> of RsGroups groups: every pair whose
\* difference is near the 0.05 / 0.1 thresholds, and the extremes.
RsCounts ==
    {rs \in (0..RsGroups) \X (0..RsGroups) :
        /\ rs[1] + rs[2] <= RsGroups
        /\ \/ rs[1] + rs[2] >= RsGroups - 1 /\ Abs(rs[1] - rs[2]) <= 5
           \/ rs[1] + rs[2] = 0
           \/ rs[1] = RsGroups
           \/ rs[2] = RsGroups}

\* Lines 370-377: the fractions rs_analysis returns; (0.5, 0.5) when it raises.
RsResult(rs, raises) ==
    IF raises THEN <<Rat(1, 2), Rat(1, 2)>>
    ELSE <<Rat(rs[1], RsGroups), Rat(rs[2], RsGroups)>>

\* Lines 421-433: <<points, confidence increment, methods>> of the chi-square test
ChiBand(chi_p) ==
    IF RLt(chi_p, Milli(1)) THEN <<3, Milli(400), <<"Chi-Square Test">> >>
    ELSE IF RLt(chi_p, Milli(10)) THEN <<2, Milli(300), <<"Chi-Square Test">> >>
    ELSE IF RLt(chi_p, Milli(50)) THEN <<1, Milli(200), <<"Chi-Square Test">> >>
    ELSE <<0, Zero, <<>> >>

\* The entropy bands with the lowest band worth two points.
EntropyBandHeavy(entropy_val) ==
    IF RGt(entropy_val, Milli(980)) THEN <<3, Milli(300), <<"Entropy Analysis">> >>
    ELSE IF RGt(entropy_val, Milli(950)) THEN <<2, Milli(200), <<"Entropy Analysis">> >>
    ELSE IF RGt(entropy_val, Milli(900)) THEN <<2, Milli(100), <<"Entropy Analysis">> >>
    ELSE <<0, Zero, <<>> >>

\* Lines 435-447
EntropyBand(entropy_val) ==
    IF RGt(entropy_val, Milli(980)) THEN <<3, Milli(300), <<"Entropy Analysis">> >>
    ELSE IF RGt(entropy_val, Milli(950)) THEN <<2, Milli(200), <<"Entropy Analysis">> >>
    ELSE IF RGt(entropy_val, Milli(900)) THEN <<1, Milli(100), <<"Entropy Analysis">> >>
    ELSE <<0, Zero, <<>> >>

\* Lines 449-458
RsBand(rs_reg, rs_sing) ==
    LET rs_diff == RAbs(RSub(rs_reg, rs_sing))
    IN  IF RLt(rs_diff, Milli(50)) THEN <<2, Milli(200), <<"RS Analysis">> >>
        ELSE IF RLt(rs_diff, Milli(100)) THEN <<1, Milli(100), <<"RS Analysis">> >>
        ELSE <<0, Zero, <<>> >>

\* The weighted verdict with the confidence left uncapped.
WeightedVerdictUncapped(chi_p, entropy_val, rs_reg, rs_sing) ==
    LET c == ChiBand(chi_p)
        e == EntropyBand(entropy_val)
        r == RsBand(rs_reg, rs_sing)
        indicator_score == c[1] + e[1] + r[1]
        confidence_score == RAdd(RAdd(c[2], e[2]), r[2])
    IN  [hasSteganography |-> indicator_score >= 3,
         confidence |-> IF RGt(confidence_score, Zero)
                        THEN RAdd(Milli(300), confidence_score)
                        ELSE confidence_score,
         chi_square_p |-> chi_p,
         lsb_entropy |-> entropy_val,
         rs_regular |-> rs_reg,
         rs_singular |-> rs_sing,
         indicator_score |-> indicator_score,
         detectionMethods |-> c[3] \o e[3] \o r[3]]

\* Lines 416-476: the verdict from the three test results.
WeightedVerdict(chi_p, entropy_val, rs_reg, rs_sing) ==
    LET c == ChiBand(chi_p)
        e == EntropyBand(entropy_val)
        r == RsBand(rs_reg, rs_sing)
        indicator_score == c[1] + e[1] + r[1]
        confidence_score == RAdd(RAdd(c[2], e[2]), r[2])
    IN  [hasSteganography |-> indicator_score >= 3,
         confidence |-> IF RGt(confidence_score, Zero)
                        THEN RMin(RAdd(Milli(300), confidence_score), One)
                        ELSE confidence_score,
         chi_square_p |-> chi_p,
         lsb_entropy |-> entropy_val,
         rs_regular |-> rs_reg,
         rs_singular |-> rs_sing,
         indicator_score |-> indicator_score,
         detectionMethods |-> c[3] \o e[3] \o r[3]]

\* The LSB plane of the 50x50 all-zero image load_image_from_buffer falls
\* back to (line 98), and the groups RS analysis finds in it: flipping a
\* constant block with either mask makes it rougher, so every group is regular.
BlankPlane == <<2500, 0>>

BlankRs == <<RsGroups, 0>>

\* What loading an image gives: a raster (its LSB plane, the number of RS
\* groups its complete blocks make, and how many of them are regular and
\* singular); a decode failure gives the blank fallback raster.  A raster of
\* any size may hold no complete block; one with RsGroups groups is large.
ImageLoads ==
    {[decoded |-> FALSE, plane |-> BlankPlane, rs |-> BlankRs, groups |-> RsGroups]}
    \cup {[decoded |-> TRUE, plane |-> pl, rs |-> <<0, 0>>, groups |-> 0] :
            pl \in {q \in StatPlanes : PlaneLen(q) > 0}}
    \cup {[decoded |-> TRUE, plane |-> pl, rs |-> rs, groups |-> RsGroups] :
            pl \in EdgePlanes, rs \in RsCounts}

\* rs_analysis (lines 318-377) on a raster: the fractions of its groups, 0
\* and 0 when it holds no complete block, (0.5, 0.5) when the analysis raises.
RsAnalysisMedia(img, raises) ==
    IF ~raises /\ img.groups = 0 THEN <<Zero, Zero>> ELSE RsResult(img.rs, raises)

\* The tests of the battery that fail inside (each has its own except
\* clause): none, one of them, or all.
TestFailures ==
    {{}, {"chi"}, {"entropy"}, {"rs"}, {"chi", "entropy"}, {"chi", "entropy", "rs"}}

\* Height and width of the rasters around the size limit of line 409.
LargeShapes == {<<1999, 2000>>, <<2000, 2000>>, <<2000, 2001>>}

\* The shapes a loaded raster can have: the blank fallback is 50x50, a raster
\* without a complete block is a single row, any other is large.
ShapesOf(img) ==
    IF ~img.decoded THEN {<<50, 50>>}
    ELSE IF img.groups = 0 THEN {<<1, PlaneLen(img.plane)>>}
    ELSE LargeShapes

\* Lines 409-414: the raster rs_analysis is given, the image itself or the
\* copy resized to 1024x1024.
RsRaster(height, width) ==
    IF height * width < 4000000 THEN "full" ELSE "scaled"

\* analyze_image (lines 379-483) on a loaded image; `fails` are the tests
\* that raise inside, `raises` a failure outside the tests.
AnalyzeImageMedia(img, fails, raises) ==
    IF raises THEN ErrorVerdict("image")
    ELSE LET rsr == RsAnalysisMedia(img, "rs" \in fails)
         IN  WeightedVerdict(ChiSquareTestMedia(img.plane, "chi" \in fails)[2],
                             ImageEntropy(img.plane, "entropy" \in fails),
                             rsr[1], rsr[2])

(***************************************************************************)
(* analyze_image of advanced_lsb_detector and advanced_steganography:      *)
(* indicator counting.                                                     *)
(***************************************************************************)
\* The scorer asking for 2 of the 4 indicators.
CompositeScoreTwo(chi_p, entropy, rs_reg, rs_sing, slope_changes) ==
    LET score == (IF RLt(chi_p, Milli(50)) THEN 1 ELSE 0)
                 + (IF RGt(entropy, Milli(900)) THEN 1 ELSE 0)
                 + (IF RLt(RAbs(RSub(rs_reg, rs_sing)), Milli(50)) THEN 1 ELSE 0)
                 + (IF slope_changes > 100 THEN 1 ELSE 0)
    IN  score >= 2

\* composite_score: at least 3 of the 4 indicators
CompositeScore(chi_p, entropy, rs_reg, rs_sing, slope_changes) ==
    LET score == (IF RLt(chi_p, Milli(50)) THEN 1 ELSE 0)
                 + (IF RGt(entropy, Milli(900)) THEN 1 ELSE 0)
                 + (IF RLt(RAbs(RSub(rs_reg, rs_sing)), Milli(50)) THEN 1 ELSE 0)
                 + (IF slope_changes > 100 THEN 1 ELSE 0)
    IN  score >= 3

\* round(x, 2)
Round2(x) == Rat((x[1] * 200 + x[2]) \div (2 * x[2]), 100)

\* Lines 172-182 (161-171 in advanced_steganography): the confidence
IndicatorConfidence(suspicious, chi_p, entropy_val, rs_reg, rs_sing, slope) ==
    IF suspicious
    THEN LET indicators == (IF RLt(chi_p, Milli(50)) THEN 1 ELSE 0)
                           + (IF RGt(entropy_val, Milli(900)) THEN 1 ELSE 0)
                           + (IF RLt(RAbs(RSub(rs_reg, rs_sing)), Milli(50)) THEN 1 ELSE 0)
                           + (IF slope > 100 THEN 1 ELSE 0)
         IN  IF indicators >= 3
             THEN RAdd(Milli(600), RMul(Rat(indicators - 3, 1), Milli(350)))
             ELSE Zero
    ELSE Zero

\* chi_square_test of the two modules: expected is [len(flat) / 2] * 2
\* whatever values occur.  With a single value in the plane the one count is
\* broadcast against the two expected counts; a scipy that checks that the
\* observed and expected sums agree (`strict`) raises ValueError, one that
\* does not computes the statistic of the broadcast counts.
ChiSquareTestLsb(pl, strict) ==
    IF NumValues(pl) = 2
    THEN [raised |-> FALSE, p |-> ChiSquare(UniqueCounts(pl), Rat(PlaneLen(pl), 2))[2]]
    ELSE IF strict THEN [raised |-> TRUE]
    ELSE [raised |-> FALSE,
          p |-> ChiSquare(UniqueCounts(pl) \o UniqueCounts(pl), Rat(PlaneLen(pl), 2))[2]]

\* Histogram slope changes fed to the scorer (threshold 100, at most 2 * 254).
SlopeValues == {0, 100, 101, 508}

\* rs_analysis of the two modules: the fractions of the groups, 0 for none
RsResultLsb(rs) == <<Rat(rs[1], RsGroups), Rat(rs[2], RsGroups)>>

\* What loading an image gives in these modules: a raster, or an exception.
\* A raster of one row or column holds no 2x2 block and, in the model, too
\* few grey levels for a slope change.
LsbLoads ==
    {[decoded |-> FALSE]}
    \cup {[decoded |-> TRUE, plane |-> pl, rs |-> <<0, 0>>, groups |-> 0, slope |-> 0] :
            pl \in {q \in StatPlanes : PlaneLen(q) > 0}}
    \cup {[decoded |-> TRUE, plane |-> pl, rs |-> rs, groups |-> RsGroups, slope |-> sl] :
            pl \in EdgePlanes, rs \in RsCounts, sl \in SlopeValues}

\* rs_analysis of the two modules on a raster
RsAnalysisLsb(img) ==
    IF img.groups = 0 THEN <<Zero, Zero>> ELSE RsResultLsb(img.rs)

\* The tests and the scoring of both analyze_image functions; raised when the
\* image does not load or a test raises.
LsbBattery(img, strict) ==
    IF ~img.decoded THEN [raised |-> TRUE]
    ELSE LET chi == ChiSquareTestLsb(img.plane, strict)
         IN  IF chi.raised THEN [raised |-> TRUE]
             ELSE LET entropy_val == ShannonEntropy(img.plane)
                      rsr == RsAnalysisLsb(img)
                      suspicious == CompositeScore(chi.p, entropy_val, rsr[1], rsr[2],
                                                   img.slope)
                  IN  [raised |-> FALSE,
                       suspicious |-> suspicious,
                       confidence |-> Round2(IndicatorConfidence(suspicious, chi.p,
                                          entropy_val, rsr[1], rsr[2], img.slope)),
                       details |-> [chi_square_p |-> chi.p,
                                    lsb_entropy |-> entropy_val,
                                    rs_regular |-> rsr[1],
                                    rs_singular |-> rsr[2],
                                    histogram_slope_changes |-> img.slope]]

\* advanced_lsb_detector.analyze_image (lines 146-206)
AnalyzeImageLsb(img, strict) ==
    LET b == LsbBattery(img, strict)
    IN  IF b.raised
        THEN [detected |-> FALSE, confidence |-> Zero,
              method |-> "Advanced LSB Analysis", error |-> "lsb"]
        ELSE [detected |-> b.suspicious, confidence |-> b.confidence,
              method |-> "Advanced LSB Analysis", details |-> b.details]

\* advanced_steganography.analyze_image (lines 140-195)
AnalyzeImageAdv(img, strict) ==
    LET b == LsbBattery(img, strict)
    IN  IF b.raised
        THEN [hasSteganography |-> FALSE, confidence |-> Zero, error |-> "adv",
              detectionMethod |-> "Advanced LSB Analysis"]
        ELSE [hasSteganography |-> b.suspicious, confidence |-> b.confidence,
              detectionMethod |-> "Advanced LSB Analysis",
              detectionsByMethod |-> b.details]

(***************************************************************************)
(* test_media_steganography.create_test_audio                              *)
(***************************************************************************)
\* Longest clip and the sample values of the clips the model generates.
MaxClip == 4

SampleValues == {-1, 0, 1, 2}

Clips == UNION {[1..n -> SampleValues] : n \in 0..MaxClip}

\* Lines 33-40: the message 1,0,1,0,... replaces the least significant bits:
\* (samples & ~1) | message
EmbedAlternating(samples) ==
    [i \in 1..Len(samples) |-> (samples[i] - (samples[i] % 2)) + (i % 2)]

\* The 16-bit words one element of samples_modified takes in tobytes():
\* message is an array of the platform's default integer, 32 or 64 bits wide,
\* and `samples_modified | message` takes its width.
MessageWords == {2, 4}

\* Line 43: audio._spawn(samples_modified.tobytes()) reads the bytes back as
\* 16-bit samples: the value itself, then the words of its sign extension.
Widen(samples, words) ==
    [j \in 1..(Len(samples) * words) |->
        LET value == samples[((j - 1) \div words) + 1]
        IN  IF (j - 1) % words = 0 THEN value
            ELSE IF value < 0 THEN -1 ELSE 0]

\* A .wav file that decodes to the samples
WavClip(samples) == [kind |-> "clip", samples |-> samples]

\* The name a .wav clip is submitted under
ClipName == <<"a", ".", "W", "a", "v">>

\* samples & 1 (line 131), as the counts <<zeros, ones>> of the plane
LsbCounts(samples) ==
    <<Cardinality({i \in 1..Len(samples) : samples[i] % 2 = 0}),
      Cardinality({i \in 1..Len(samples) : samples[i] % 2 = 1})>>

\* The name the test passes: the basename of a mkstemp(suffix='.wav') path
TestAudioName == <<"t", "m", "p", ".", "w", "a", "v">>

(***************************************************************************)
(* steganography_service.SteganographyDetector                             *)
(***************************************************************************)
\* Pixels of the larger image detect_lsb is given in the model.
AggPixels == 20

\* The images detect_lsb is given: one row of grey pixels, so that the three
\* channels are alike, described by the zeros and ones among the pixel LSBs
\* and the number of adjacent pixels whose LSBs differ (the fewest and the
\* most that the counts allow).
LsbImages ==
    {[zeros |-> n - k, ones |-> k, transitions |-> t] :
        n \in {1, 2, AggPixels}, k \in 0..AggPixels, t \in 0..AggPixels} \cap
    {img \in [zeros : 0..AggPixels, ones : 0..AggPixels, transitions : 0..AggPixels] :
        LET n == img.zeros + img.ones
            m == IF img.zeros < img.ones THEN img.zeros ELSE img.ones
            most == IF 2 * m < n - 1 THEN 2 * m ELSE n - 1
        IN  /\ n \in {1, 2, AggPixels}
            /\ IF m = 0 THEN img.transitions = 0
               ELSE img.transitions \in {1, most}}

\* detect_lsb (lines 113-210) on a decoded image: lines 134-189.
LsbScore(img) ==
    LET size == img.zeros + img.ones
        lsb_freq == Rat(img.ones, size)
        max_anomaly == RAbs(RSub(lsb_freq, Rat(1, 2)))
        expected == Rat(size, 2)
        sq(x) == RMul(x, x)
        chi_square ==
            RAdd(RMul(sq(RSub(Rat(img.zeros, 1), expected)), Rat(2, size)),
                 RMul(sq(RSub(Rat(img.ones, 1), expected)), Rat(2, size)))
        transition_ratio == Rat(3 * img.transitions, size * 3)
        chi_score == RMin(One, RDivInt(chi_square, 20))
        transition_score == RMul(RMax(Zero, RSub(Milli(600), transition_ratio)),
                                 Rat(2, 1))
        final_score == RAdd(RAdd(RMul(max_anomaly, Milli(400)),
                                 RMul(chi_score, Milli(400))),
                            RMul(transition_score, Milli(200)))
    IN  [detected |-> RGt(final_score, Milli(500)),
         confidence |-> RMin(Milli(950), final_score),
         chi_square_avg |-> chi_square,
         transition_ratio |-> transition_ratio,
         anomaly_score |-> max_anomaly]

\* The sub-result of a method's except clause (lines 204-210, 252-258, 291-297)
MethodError(msg) == [detected |-> FALSE, confidence |-> Zero, error |-> msg]

\* What detect_lsb returns: the score of a decoded image, or the error
\* sub-result when the bytes do not open as an image.
DetectLsbResults == {MethodError("lsb")} \cup {LsbScore(img) : img \in LsbImages}

\* Fusion scores StegExpose prints.
FusionScores == {Zero, Rat(1, 2), Rat(3, 5), Rat(19, 20), One}

\* detect_stegexpose (lines 212-258): the verdict from the fusion score, or
\* the error sub-result (tool missing, non-zero exit, short output).
DetectStegExposeResults ==
    {MethodError("stegexpose")}
    \cup {[detected |-> RGt(f, Milli(500)), confidence |-> RMin(Milli(950), f),
           fusion_score |-> f] : f \in FusionScores}

\* detect_openstego (lines 260-297): extraction reported or not, or the error
\* sub-result (java missing).
DetectOpenStegoResults ==
    {MethodError("openstego"),
     [detected |-> TRUE, confidence |-> Milli(850)],
     [detected |-> FALSE, confidence |-> Zero]}

\* The keys of detailsByMethod in insertion order
MethodOrder == <<"lsb_analysis", "stegexpose", "openstego">>

\* Lines 79-91: <<confidence_sum, methods_count>> over the first k methods
RECURSIVE ConfidenceSum(_, _)
ConfidenceSum(details, k) ==
    IF k = 0 THEN <<Zero, 0>>
    ELSE LET rest == ConfidenceSum(details, k - 1)
             method == MethodOrder[k]
         IN  IF method \in DOMAIN details /\ HasKey(details[method], "confidence")
             THEN IF method = "lsb_analysis"
                  THEN <<RAdd(rest[1], RMul(details[method].confidence, Rat(2, 1))),
                         rest[2] + 2>>
                  ELSE <<RAdd(rest[1], details[method].confidence), rest[2] + 1>>
             ELSE rest

\* The external tools run whatever the LSB analysis found.
RunExternalToolsAlways(lsb_result) == TRUE

\* Line 57: the external tools run only if the LSB confidence is below 0.8
RunExternalTools(lsb_result) == RLt(lsb_result.confidence, Milli(800))

\* The aggregation with the flag taken from the LSB analysis alone.
AggregateLsbOnly(details) ==
    LET found(method) == /\ method = "lsb_analysis"
                         /\ method \in DOMAIN details
                         /\ Get(details[method], "detected", FALSE)
        sum == ConfidenceSum(details, Len(MethodOrder))
    IN  [hasSteganography |-> \E k \in 1..Len(MethodOrder) : found(MethodOrder[k]),
         confidence |-> IF sum[2] > 0 THEN RDivInt(sum[1], sum[2]) ELSE Zero,
         detectionMethods |-> SelectSeq(MethodOrder, found),
         detailsByMethod |-> details]

\* Lines 39-94: the results dict after aggregation.
Aggregate(details) ==
    LET found(method) == /\ method \in DOMAIN details
                         /\ Get(details[method], "detected", FALSE)
        sum == ConfidenceSum(details, Len(MethodOrder))
    IN  [hasSteganography |-> \E k \in 1..Len(MethodOrder) : found(MethodOrder[k]),
         confidence |-> IF sum[2] > 0 THEN RDivInt(sum[1], sum[2]) ELSE Zero,
         detectionMethods |-> SelectSeq(MethodOrder, found),
         detailsByMethod |-> details]

(***************************************************************************)
(* extract_lsb_plane on rasters                                            *)
(***************************************************************************)
\* Channel values and grey levels of the rasters the extractor is tried on.
ChannelValues == {0, 1, 255}
GrayLevels == {0, 1, 2, 255}

\* Shapes of the rasters: 2-D (grey), 3-D with 3 channels (BGR) and 3-D with
\* 2 channels, which cv2.cvtColor refuses.
GrayShapes == {<<1, 1>>, <<1, 2>>, <<2, 1>>, <<2, 2>>}
ColorShapes == {<<1, 1, 3>>, <<1, 2, 3>>}
OddShapes == {<<1, 1, 2>>}

\* A raster is its shape and its entries in row-major order: grey levels, or
\* tuples of channel values.
Rasters ==
    UNION {{[shape |-> sh, data |-> d] : d \in [1..(sh[1] * sh[2]) -> GrayLevels]} :
              sh \in GrayShapes}
    \cup UNION {{[shape |-> sh, data |-> d] :
                    d \in [1..(sh[1] * sh[2]) -> [1..3 -> ChannelValues]]} :
                  sh \in ColorShapes}
    \cup UNION {{[shape |-> sh, data |-> d] :
                    d \in [1..(sh[1] * sh[2]) -> [1..2 -> {0, 1}]]} :
                  sh \in OddShapes}

\* cv2.cvtColor(image, cv2.COLOR_BGR2GRAY) on 8-bit pixels: the fixed-point
\* luminance of OpenCV, rounded.  It raises unless the raster has 3 channels.
Luminance(px) == (px[1] * 3735 + px[2] * 19235 + px[3] * 9798 + 16384) \div 32768

CvtColorBGR2GRAY(image) ==
    IF Len(image.shape) = 3 /\ image.shape[3] = 3
    THEN [raised |-> FALSE,
          shape |-> <<image.shape[1], image.shape[2]>>,
          data |-> [i \in DOMAIN image.data |-> Luminance(image.data[i])]]
    ELSE [raised |-> TRUE]

\* gray & 1
BitAndOne(gray) ==
    [raised |-> FALSE, shape |-> gray.shape,
     data |-> [i \in DOMAIN gray.data |-> gray.data[i] % 2]]

\* np.zeros((50, 50), dtype=np.uint8)
FallbackPlane == [raised |-> FALSE, shape |-> <<50, 50>>, data |-> [i \in 1..2500 |-> 0]]

\* advanced_media_steganography.extract_lsb_plane: a 2-D raster is taken as
\* grey already; an exception gives the fallback plane.
ExtractLsbPlaneMedia(image) ==
    IF Len(image.shape) = 3
    THEN LET gray == CvtColorBGR2GRAY(image)
         IN  IF gray.raised THEN FallbackPlane ELSE BitAndOne(gray)
    ELSE BitAndOne(image)

\* advanced_lsb_detector.extract_lsb_plane (advanced_steganography's is the
\* same): the raster is always converted, and an exception propagates.
ExtractLsbPlaneLsb(image) ==
    LET gray == CvtColorBGR2GRAY(image)
    IN  IF gray.raised THEN gray ELSE BitAndOne(gray)

ExtractLsbPlane(module, image) ==
    IF module = "media" THEN ExtractLsbPlaneMedia(image) ELSE ExtractLsbPlaneLsb(image)

(***************************************************************************)
(* histogram_slope_analysis                                                *)
(***************************************************************************)
\* Bins of the histograms the analysis is tried on (256 in the code), and
\* the largest count of a bin.
HistBins == 4
MaxBinCount == 2

Histograms == [1..HistBins -> 0..MaxBinCount]

\* np.diff
Diff(seq) == [i \in 1..(Len(seq) - 1) |-> seq[i + 1] - seq[i]]

\* np.sign
Sign(x) == IF x > 0 THEN 1 ELSE IF x < 0 THEN -1 ELSE 0

RECURSIVE SumSeq(_)
SumSeq(seq) == IF seq = <<>> THEN 0 ELSE Head(seq) + SumSeq(Tail(seq))

\* np.sum(np.abs(np.diff(np.sign(np.diff(hist)))))
HistogramSlopeAnalysis(hist) ==
    LET signs == [i \in DOMAIN Diff(hist) |-> Sign(Diff(hist)[i])]
        steps == Diff(signs)
    IN  SumSeq([i \in DOMAIN steps |-> Abs(steps[i])])

(***************************************************************************)
(* rs_analysis on rasters                                                  *)
(***************************************************************************)
\* The grey rasters rs_analysis is tried on: each row follows one of four
\* patterns (flat, the two alternations, a ramp); the shapes hold no complete
\* block, one, one with a margin, or several.
RowPatterns == 1..4

RowValue(k, x) ==
    IF k = 1 THEN 0
    ELSE IF k = 2 THEN x % 2
    ELSE IF k = 3 THEN (x + 1) % 2
    ELSE x

RsShapes == {<<1, 1>>, <<3, 4>>, <<4, 4>>, <<5, 5>>, <<4, 8>>}

RsRasters ==
    UNION {{[shape |-> sh, rows |-> r] : r \in [1..sh[1] -> RowPatterns]} :
              sh \in RsShapes}

\* gray[y, x], indices from 0
Pixel(gray, y, x) == RowValue(gray.rows[y + 1], x)

\* v ^ m for a mask entry m of 0 or 1
XorBit(v, m) == IF m = 0 THEN v ELSE IF v % 2 = 0 THEN v + 1 ELSE v - 1

\* range(0, stop, step)
Range(stop, step) == {i \in 0..(stop - 1) : i % step = 0}

\* The media module: mask1 and mask2 tiled to 4x4 (lines 326-332)
MaskMedia(n, dy, dx) == IF n = 1 THEN (dy + dx) % 2 ELSE (dy + dx + 1) % 2

\* np.sum(np.abs(np.diff(block, axis=0))) of the 4x4 block at (y, x), flipped
\* by mask n (0 for the block as it is)
Smoothness(gray, y, x, n) ==
    LET v(dy, dx) == IF n = 0 THEN Pixel(gray, y + dy, x + dx)
                     ELSE XorBit(Pixel(gray, y + dy, x + dx), MaskMedia(n, dy, dx))
    IN  SumSeq([i \in 1..12 |->
                   LET dy == (i - 1) \div 4
                       dx == (i - 1) % 4
                   IN  Abs(v(dy + 1, dx) - v(dy, dx))])

\* Lines 350-367: the class of one block under one mask
ClassifyMedia(gray, y, x, n) ==
    IF Smoothness(gray, y, x, n) > Smoothness(gray, y, x, 0) THEN "regular"
    ELSE IF Smoothness(gray, y, x, n) < Smoothness(gray, y, x, 0) THEN "singular"
    ELSE "neither"

\* Line 369: total_blocks, doubled for the two masks; before it, the count
\* without the doubling
TotalBlocksOneMask(height, width) == (height \div 4) * (width \div 4)

TotalBlocks(height, width) == ((height \div 4) * (width \div 4)) * 2

\* rs_analysis of the media module (lines 318-377) on a grey raster: the
\* groups counted, the denominator and the fractions returned
RsAnalysisRasterMedia(gray) ==
    LET height == gray.shape[1]
        width == gray.shape[2]
        pairs == Range(height - 4 + 1, 4) \X Range(width - 4 + 1, 4) \X {1, 2}
        regular_groups ==
            Cardinality({p \in pairs : ClassifyMedia(gray, p[1], p[2], p[3]) = "regular"})
        singular_groups ==
            Cardinality({p \in pairs : ClassifyMedia(gray, p[1], p[2], p[3]) = "singular"})
        total_blocks == TotalBlocks(height, width)
    IN  [pairs |-> Cardinality(pairs), regular |-> regular_groups,
         singular |-> singular_groups, total |-> total_blocks,
         r |-> IF total_blocks > 0 THEN Rat(regular_groups, total_blocks) ELSE Zero,
         s |-> IF total_blocks > 0 THEN Rat(singular_groups, total_blocks) ELSE Zero]

\* 16 * np.var of the 2x2 block at (i, j), its last pixel flipped or not
Var16(gray, i, j, flip) ==
    LET a == Pixel(gray, i, j)
        b == Pixel(gray, i, j + 1)
        cc == Pixel(gray, i + 1, j)
        d == XorBit(Pixel(gray, i + 1, j + 1), IF flip THEN 1 ELSE 0)
    IN  4 * (a * a + b * b + cc * cc + d * d) - (a + b + cc + d) * (a + b + cc + d)

\* advanced_lsb_detector, lines 94-99: the class of one block
ClassifyLsb(gray, i, j) ==
    IF Var16(gray, i, j, TRUE) > Var16(gray, i, j, FALSE) THEN "regular"
    ELSE IF Var16(gray, i, j, TRUE) < Var16(gray, i, j, FALSE) THEN "singular"
    ELSE "neither"

\* rs_analysis of advanced_lsb_detector (lines 79-105) on a grey raster
RsAnalysisRasterLsb(gray) ==
    LET rows == gray.shape[1]
        cols == gray.shape[2]
        blocks == Range(rows - 1, 2) \X Range(cols - 1, 2)
        regular == Cardinality({p \in blocks : ClassifyLsb(gray, p[1], p[2]) = "regular"})
        singular == Cardinality({p \in blocks : ClassifyLsb(gray, p[1], p[2]) = "singular"})
        total == Cardinality(blocks)
    IN  [pairs |-> Cardinality(blocks), regular |-> regular, singular |-> singular,
         total |-> total,
         r |-> IF total > 0 THEN Rat(regular, total) ELSE Zero,
         s |-> IF total > 0 THEN Rat(singular, total) ELSE Zero]

(***************************************************************************)
(* MediaSecurityService.analyze_media_file                                 *)
(***************************************************************************)
\* VIDEO_FORMATS of media_security_service (line 40); AUDIO_FORMATS and
\* IMAGE_FORMATS (lines 39, 41) list the extensions of the media module.
SecVideoExts ==
    VideoExts \cup {<<".", "m", "4", "v">>, <<".", "3", "g", "p">>}

\* _determine_file_type (lines 532-541)
DetermineFileType(file_ext) ==
    IF file_ext \in AudioExts THEN "audio"
    ELSE IF file_ext \in SecVideoExts THEN "video"
    ELSE IF file_ext \in ImageExts THEN "image"
    ELSE "unknown"

\* A threat level is a string or, after the codec stage, an int.
StrLevel(name) == [type |-> "str", v |-> name]
IntLevel(numeric_level) == [type |-> "int", numeric |-> numeric_level]

\* _threat_level_to_numeric (lines 566-576); a value that is no key gives -1
ThreatLevelToNumeric(level) ==
    IF level.type # "str" THEN -1
    ELSE IF level.v = "none" THEN 0
    ELSE IF level.v = "low" THEN 1
    ELSE IF level.v = "medium" THEN 2
    ELSE IF level.v = "high" THEN 3
    ELSE IF level.v = "critical" THEN 4
    ELSE -1

\* _numeric_to_threat_level (lines 578-588)
NumericToThreatLevel(numeric_level) ==
    IF numeric_level = 0 THEN "none"
    ELSE IF numeric_level = 1 THEN "low"
    ELSE IF numeric_level = 2 THEN "medium"
    ELSE IF numeric_level = 3 THEN "high"
    ELSE IF numeric_level = 4 THEN "critical"
    ELSE "unknown"

\* The rank of a level of either type, for comparing stages
LevelRank(level) ==
    IF level.type = "int" THEN level.numeric ELSE ThreatLevelToNumeric(level)

\* What detect_media_steganography returned to the service, as far as the
\* service reads it: the flag and the confidence (0.7 is the limit of line
\* 123); an error verdict has the flag false.
SecStegoVerdicts ==
    {[hasSteganography |-> FALSE, confidence |-> Zero],
     [hasSteganography |-> FALSE, confidence |-> Milli(300)],
     [hasSteganography |-> FALSE, confidence |-> Milli(500)],
     [hasSteganography |-> TRUE, confidence |-> Milli(300)],
     [hasSteganography |-> TRUE, confidence |-> Milli(700)],
     [hasSteganography |-> TRUE, confidence |-> Rat(19, 25)],
     [hasSteganography |-> TRUE, confidence |-> One]}

\* The outcomes of the stages of one analysis: suspicious metadata fields
\* found, the steganography verdict, whether the YARA rules loaded and
\* matched, whether ffprobe named an uncommon codec.
SecOutcomes ==
    [suspicious_fields : BOOLEAN, stego : SecStegoVerdicts,
     yara_rules : BOOLEAN, yara_matches : BOOLEAN, uncommon_codec : BOOLEAN]

\* Lines 112-116: suspicious metadata
StageMetadata(st, o) ==
    IF o.suspicious_fields
    THEN [isSafe |-> FALSE, threatLevel |-> StrLevel("low"),
          warnings |-> Append(st.warnings, "Suspicious metadata detected")]
    ELSE st

\* Lines 119-130: the steganography verdict
StageStego(st, o) ==
    IF o.stego.hasSteganography
    THEN [isSafe |-> FALSE,
          threatLevel |-> IF RGt(o.stego.confidence, Milli(700))
                          THEN StrLevel("high") ELSE StrLevel("medium"),
          warnings |-> Append(st.warnings, "Potential hidden data detected")]
    ELSE st

\* Lines 133-142: the YARA scan, when the rules loaded
StageYara(st, o) ==
    IF o.yara_rules /\ o.yara_matches
    THEN [isSafe |-> FALSE,
          threatLevel |-> IF st.threatLevel = StrLevel("none") THEN StrLevel("medium")
                          ELSE st.threatLevel,
          warnings |-> Append(st.warnings,
                         "Matched patterns associated with steganography techniques")]
    ELSE st

\* Lines 145-156: the codec check, for audio and video extensions
StageCodec(st, o, file_ext) ==
    IF file_ext \in AudioExts \cup SecVideoExts /\ o.uncommon_codec
    THEN LET a == ThreatLevelToNumeric(st.threatLevel)
             b == ThreatLevelToNumeric(StrLevel("medium"))
         IN  [isSafe |-> FALSE,
              threatLevel |-> IntLevel(IF a > b THEN a ELSE b),
              warnings |-> Append(st.warnings, "Uncommon codec detected")]
    ELSE st

\* The result leaving the level as the codec stage set it.
StageConvertSkipped(st) == st

\* Lines 162-165: an int level is converted back to a string
StageConvert(st) ==
    IF st.threatLevel.type = "int"
    THEN [st EXCEPT !.threatLevel = StrLevel(NumericToThreatLevel(st.threatLevel.numeric))]
    ELSE st

\* The security status after each stage of lines 93-165, in order:
\* initial, metadata, steganography, YARA, codec, conversion.
SecurityStages(file_ext, o) ==
    LET s0 == [isSafe |-> TRUE, threatLevel |-> StrLevel("none"), warnings |-> <<>>]
        s1 == StageMetadata(s0, o)
        s2 == StageStego(s1, o)
        s3 == StageYara(s2, o)
        s4 == StageCodec(s3, o, file_ext)
        s5 == StageConvert(s4)
    IN  <<s0, s1, s2, s3, s4, s5>>

(***************************************************************************)
(* The state machine: calls of the entry points, their temporary files     *)
(* and their verdicts.                                                     *)
(***************************************************************************)
\* The calls of the model.  Spec runs the first alone; SpecPair runs both
\* interleaved.
Calls == {1, 2}

Solo == {1}

\* max_frames of extract_frames_from_video
MaxFrames == 10

VARIABLES
    pc,            \* pc[c]: where call c stands
    entry,         \* entry[c]: the entry point call c entered
    fileName,      \* fileName[c]: the file_name argument
    fileData,      \* fileData[c]: what is known of the file_data argument
    tempFilePath,  \* tempFilePath[c]: temp_file_path, 0 for None
    result,        \* result[c]: the verdict under construction / returned
    cap,           \* cap[c]: the locals of extract_frames_from_video
    vid,           \* vid[c]: the locals of analyze_video
    fs,            \* the temporary files that exist
    nextTmp,       \* the next unused temporary file name
    created,       \* created[c]: the temp files call c created (history)
    ran,            \* ran[c]: the analysis paths call c dispatched to (history)
    agg,           \* agg[c]: the method sub-results of an aggregator call, and the
                   \* methods it invoked, in order
    env            \* env[c]: what the file of call c decoded to and which tests
                   \* failed on it (history)

vars == <<pc, entry, fileName, fileData, tempFilePath, result, cap, vid, fs, nextTmp,
          created, ran, agg, env>>

NoResult == [pending |-> TRUE]

\* file_data: arbitrary bytes, whose decoding the model chooses, or the .wav
\* clip that create_test_audio made, whose samples are known.
Bytes == [kind |-> "bytes"]

NoCap == [opened |-> FALSE, released |-> FALSE, frame_count |-> 0, stream |-> 0,
          pos |-> 0, indices |-> <<>>, frames |-> <<>>]

NoVid == [n_frames |-> 0, analyzed |-> 0, suspicious_frames |-> 0,
          audio_path |-> 0, audio_result |-> None]

NoAgg == [details |-> <<>>, invoked |-> <<>>]

NoEnv == [kind |-> "none"]

\* tempfile.NamedTemporaryFile(delete=False).name: a name no existing file
\* has, here the next unused number.
NamedTemporaryFileShared(next) == 1

NamedTemporaryFile(next) == next

Init ==
    /\ pc = [c \in Calls |-> "idle"]
    /\ entry = [c \in Calls |-> "none"]
    /\ fileName = [c \in Calls |-> <<>>]
    /\ fileData = [c \in Calls |-> Bytes]
    /\ tempFilePath = [c \in Calls |-> 0]
    /\ result = [c \in Calls |-> NoResult]
    /\ cap = [c \in Calls |-> NoCap]
    /\ vid = [c \in Calls |-> NoVid]
    /\ fs = {}
    /\ nextTmp = 1
    /\ created = [c \in Calls |-> {}]
    /\ ran = [c \in Calls |-> {}]
    /\ agg = [c \in Calls |-> NoAgg]
    /\ env = [c \in Calls |-> NoEnv]

(***************************************************************************)
(* detect_media_steganography                                              *)
(***************************************************************************)
\* detect_media_steganography(file_data, file_name) is called with some bytes
\* under one of the names, or with a .wav clip of known samples.
CallDetectMediaOn(c, names, clips) ==
    /\ pc[c] = "idle"
    /\ \/ /\ \E name \in names : fileName' = [fileName EXCEPT ![c] = name]
          /\ fileData' = [fileData EXCEPT ![c] = Bytes]
       \/ /\ fileName' = [fileName EXCEPT ![c] = ClipName]
          /\ \E samples \in clips : fileData' = [fileData EXCEPT ![c] = WavClip(samples)]
    /\ entry' = [entry EXCEPT ![c] = "media"]
    /\ pc' = [pc EXCEPT ![c] = "m_dispatch"]
    /\ UNCHANGED <<tempFilePath, result, cap, vid, fs, nextTmp, created, ran, agg, env>>

\* Any of the names, any of the clips.
CallDetectMedia(c) == CallDetectMediaOn(c, FileNames, Clips)

\* Lines 496-527: the extension is taken from the name and dispatched on.
\* An unsupported extension gives its verdict at once.
MediaDispatch(c) ==
    /\ pc[c] = "m_dispatch"
    /\ LET ext == Lower(SplitExt(fileName[c]))
           kind == MediaTypeOf(ext)
       IN  /\ pc' = [pc EXCEPT ![c] =
                       IF kind \in {"audio", "video"} THEN "m_save"
                       ELSE IF kind = "image" THEN "m_image"
                       ELSE "m_cleanup"]
           /\ result' = [result EXCEPT ![c] =
                           IF kind = "unknown"
                           THEN [hasSteganography |-> FALSE,
                                 confidence |-> Zero,
                                 error |-> "Unsupported file format",
                                 mediaType |-> "unknown"]
                           ELSE @]
    /\ UNCHANGED <<entry, fileName, fileData, tempFilePath, cap, vid, fs, nextTmp,
                   created, ran, agg, env>>

\* save_buffer_to_temp_file (lines 100-104) as called on lines 505 and 511.
\* The file is created and written, or creating it raises, or it is created
\* (delete=False) and writing it raises; an exception leaves temp_file_path
\* None and reaches the handler of line 538.
SaveBufferToTempFile(c) ==
    /\ pc[c] = "m_save"
    /\ \/ /\ fs' = fs \cup {NamedTemporaryFile(nextTmp)}
          /\ created' = [created EXCEPT ![c] = @ \cup {NamedTemporaryFile(nextTmp)}]
          /\ tempFilePath' = [tempFilePath EXCEPT ![c] = NamedTemporaryFile(nextTmp)]
          /\ nextTmp' = nextTmp + 1
          /\ pc' = [pc EXCEPT ![c] =
                      IF MediaTypeOf(Lower(SplitExt(fileName[c]))) = "audio"
                      THEN "m_audio" ELSE "v_open"]
       \/ /\ pc' = [pc EXCEPT ![c] = "m_except"]
          /\ UNCHANGED <<fs, created, tempFilePath, nextTmp>>
       \/ /\ fs' = fs \cup {NamedTemporaryFile(nextTmp)}
          /\ created' = [created EXCEPT ![c] = @ \cup {NamedTemporaryFile(nextTmp)}]
          /\ nextTmp' = nextTmp + 1
          /\ pc' = [pc EXCEPT ![c] = "m_except"]
          /\ UNCHANGED tempFilePath
    /\ UNCHANGED <<entry, fileName, fileData, result, cap, vid, ran, agg, env>>

\* Lines 506-507: the audio path.  The file decodes only if it exists; a
\* clip of create_test_audio decodes to its samples.
MediaAnalyzeAudioOn(c, decodes) ==
    /\ pc[c] = "m_audio"
    /\ \E dec \in decodes :
        /\ dec.ok => tempFilePath[c] \in fs
        /\ fileData[c].kind = "clip" /\ tempFilePath[c] \in fs
              => dec = [ok |-> TRUE, plane |-> LsbCounts(fileData[c].samples)]
        /\ result' = [result EXCEPT ![c] =
                        SetKey(AnalyzeAudioLsb(dec), "mediaType", "audio")]
        /\ env' = [env EXCEPT ![c] = [kind |-> "audio", dec |-> dec]]
    /\ ran' = [ran EXCEPT ![c] = @ \cup {"audio"}]
    /\ pc' = [pc EXCEPT ![c] = "m_cleanup"]
    /\ UNCHANGED <<entry, fileName, fileData, tempFilePath, cap, vid, fs, nextTmp,
                   created, agg>>

\* Any decode outcome.
MediaAnalyzeAudio(c) == MediaAnalyzeAudioOn(c, AudioDecodes)

\* Lines 517-518: the image path, on the bytes themselves.
MediaAnalyzeImageOn(c, loads, failures) ==
    /\ pc[c] = "m_image"
    /\ \E img \in loads, fails \in failures, raises \in BOOLEAN :
        \E shape \in ShapesOf(img) :
            /\ result' = [result EXCEPT ![c] =
                            SetKey(AnalyzeImageMedia(img, fails, raises),
                                   "mediaType", "image")]
            /\ env' = [env EXCEPT ![c] =
                         IF raises THEN [kind |-> "image", raises |-> TRUE]
                         ELSE [kind |-> "image", raises |-> FALSE, img |-> img,
                               fails |-> fails, shape |-> shape,
                               rs_on |-> RsRaster(shape[1], shape[2])]]
    /\ ran' = [ran EXCEPT ![c] = @ \cup {"image"}]
    /\ pc' = [pc EXCEPT ![c] = "m_cleanup"]
    /\ UNCHANGED <<entry, fileName, fileData, tempFilePath, cap, vid, fs, nextTmp,
                   created, agg>>

\* Any load outcome, any of the test failures.
MediaAnalyzeImage(c) == MediaAnalyzeImageOn(c, ImageLoads, TestFailures)

\* Lines 529-536: the temp file is unlinked if one was made and exists; a
\* failing unlink is swallowed.  The verdict is returned.
MediaCleanup(c) ==
    /\ pc[c] = "m_cleanup"
    /\ \/ /\ tempFilePath[c] # 0 /\ tempFilePath[c] \in fs
          /\ fs' = fs \ {tempFilePath[c]}
       \/ /\ tempFilePath[c] # 0 /\ tempFilePath[c] \in fs
          /\ fs' = fs
       \/ /\ ~(tempFilePath[c] # 0 /\ tempFilePath[c] \in fs)
          /\ fs' = fs
    /\ pc' = [pc EXCEPT ![c] = "done"]
    /\ UNCHANGED <<entry, fileName, fileData, tempFilePath, result, cap, vid, nextTmp,
                   created, ran, agg, env>>

\* Lines 538-545: an exception in the body gives the fallback verdict.
MediaExcept(c) ==
    /\ pc[c] = "m_except"
    /\ result' = [result EXCEPT ![c] =
                    [hasSteganography |-> FALSE,
                     confidence |-> Zero,
                     error |-> "Analysis failed",
                     mediaType |-> "unknown"]]
    /\ pc' = [pc EXCEPT ![c] = "done"]
    /\ UNCHANGED <<entry, fileName, fileData, tempFilePath, cap, vid, fs, nextTmp,
                   created, ran, agg, env>>

(***************************************************************************)
(* extract_frames_from_video and analyze_video                             *)
(***************************************************************************)
\* np.linspace(0, frame_count - 1, max_frames, dtype=int)
Linspace(frame_count) ==
    [i \in 1..MaxFrames |-> ((i - 1) * (frame_count - 1)) \div (MaxFrames - 1)]

\* Lines 168-178: the capture is opened and the reported frame count read.
\* The container reports frame_count (-1 or 0 when it does not know); the
\* stream delivers `stream` frames.  A capture that does not open raises,
\* and the except clause returns no frames.
VideoOpenOn(c, streams) ==
    /\ pc[c] = "v_open"
    /\ ran' = [ran EXCEPT ![c] = @ \cup {"video"}]
    /\ \/ /\ cap' = [cap EXCEPT ![c] = NoCap]
          /\ pc' = [pc EXCEPT ![c] = "v_frames"]
       \/ /\ tempFilePath[c] \in fs
          /\ \E st \in streams :
              LET fc == st[1]
                  len == st[2]
              IN  /\ cap' = [cap EXCEPT ![c] =
                               [opened |-> TRUE, released |-> FALSE,
                                frame_count |-> fc, stream |-> len, pos |-> 0,
                                indices |-> IF fc > MaxFrames THEN Linspace(fc)
                                            ELSE <<>>,
                                frames |-> <<>>]]
                  /\ pc' = [pc EXCEPT ![c] =
                              IF fc > MaxFrames THEN "v_sample" ELSE "v_readall"]
    /\ UNCHANGED <<entry, fileName, fileData, tempFilePath, result, vid, fs, nextTmp,
                   created, agg, env>>

\* Any reported frame count, any stream length.
VideoOpen(c) == VideoOpenOn(c, (-1..MaxStream) \X (0..MaxStream))

\* Lines 179-183 and 192: one index of the sample is sought and read; after
\* the last one the capture is released.
VideoSample(c) ==
    /\ pc[c] = "v_sample"
    /\ IF cap[c].indices = <<>>
       THEN /\ cap' = [cap EXCEPT ![c].released = TRUE]
            /\ pc' = [pc EXCEPT ![c] = "v_frames"]
       ELSE LET idx == Head(cap[c].indices)
                ret == idx < cap[c].stream
            IN  /\ cap' = [cap EXCEPT ![c].indices = Tail(@),
                                      ![c].pos = IF ret THEN idx + 1 ELSE idx,
                                      ![c].frames = IF ret THEN Append(@, idx) ELSE @]
                /\ pc' = pc
    /\ UNCHANGED <<entry, fileName, fileData, tempFilePath, result, vid, fs, nextTmp,
                   created, ran, agg, env>>

\* Lines 186-192: frames are read until a read fails; then the capture is
\* released.
VideoReadAll(c) ==
    /\ pc[c] = "v_readall"
    /\ IF cap[c].pos < cap[c].stream
       THEN /\ cap' = [cap EXCEPT ![c].frames = Append(@, cap[c].pos),
                                  ![c].pos = @ + 1]
            /\ pc' = pc
       ELSE /\ cap' = [cap EXCEPT ![c].released = TRUE]
            /\ pc' = [pc EXCEPT ![c] = "v_frames"]
    /\ UNCHANGED <<entry, fileName, fileData, tempFilePath, result, vid, fs, nextTmp,
                   created, ran, agg, env>>

\* Lines 201-212: extract_frames_from_video has returned.  No frames give the
\* error verdict; otherwise the frame loop starts.
VideoFrames(c) ==
    /\ pc[c] = "v_frames"
    /\ IF cap[c].frames = <<>>
       THEN /\ result' = [result EXCEPT ![c] =
                            SetKey(ErrorVerdict("No frames could be extracted from video"),
                                   "mediaType", "video")]
            /\ pc' = [pc EXCEPT ![c] = "m_cleanup"]
            /\ vid' = vid
       ELSE /\ vid' = [vid EXCEPT ![c] = [NoVid EXCEPT !.n_frames = Len(cap[c].frames)]]
            /\ pc' = [pc EXCEPT ![c] = "v_frame"]
            /\ result' = result
    /\ cap' = [cap EXCEPT ![c] = [NoCap EXCEPT !.opened = cap[c].opened,
                                               !.released = cap[c].released]]
    /\ UNCHANGED <<entry, fileName, fileData, tempFilePath, fs, nextTmp, created, ran,
                   agg, env>>

\* Lines 214-223: one frame is tested.  shannon_entropy is called bare: if it
\* raises, the handler of line 276 gives the error verdict.
VideoFrameOn(c, planes) ==
    /\ pc[c] = "v_frame"
    /\ \/ \E pl \in planes :
            LET chi_p == ChiSquareTestMedia(pl, FALSE)[2]
                entropy_val == ShannonEntropy(pl)
                done == vid[c].analyzed + 1 = vid[c].n_frames
            IN  /\ vid' = [vid EXCEPT ![c].analyzed = @ + 1,
                                      ![c].suspicious_frames =
                                          IF FrameSuspicious(chi_p, entropy_val)
                                          THEN @ + 1 ELSE @]
                /\ pc' = [pc EXCEPT ![c] = IF done THEN "v_extract_audio" ELSE "v_frame"]
                /\ result' = result
       \/ /\ result' = [result EXCEPT ![c] =
                          SetKey(ErrorVerdict("video"), "mediaType", "video")]
          /\ pc' = [pc EXCEPT ![c] = "m_cleanup"]
          /\ vid' = vid
    /\ UNCHANGED <<entry, fileName, fileData, tempFilePath, cap, fs, nextTmp, created,
                   ran, agg, env>>

\* Any LSB plane of a frame.
VideoFrame(c) == VideoFrameOn(c, {q \in StatPlanes : PlaneLen(q) > 0})

\* extract_audio_from_video (lines 108-121) as called on line 228.  The .wav
\* is created with delete=False before ffmpeg runs; if ffmpeg fails (no audio
\* track, corrupt stream) None is returned.  Creating the file may itself
\* raise, which the handler of line 234 swallows.
VideoExtractAudio(c) ==
    /\ pc[c] = "v_extract_audio"
    /\ \/ /\ fs' = fs \cup {NamedTemporaryFile(nextTmp)}
          /\ created' = [created EXCEPT ![c] = @ \cup {NamedTemporaryFile(nextTmp)}]
          /\ nextTmp' = nextTmp + 1
          /\ vid' = [vid EXCEPT ![c].audio_path = NamedTemporaryFile(nextTmp)]
          /\ pc' = [pc EXCEPT ![c] = "v_audio"]
       \/ /\ fs' = fs \cup {NamedTemporaryFile(nextTmp)}
          /\ created' = [created EXCEPT ![c] = @ \cup {NamedTemporaryFile(nextTmp)}]
          /\ nextTmp' = nextTmp + 1
          /\ vid' = vid
          /\ pc' = [pc EXCEPT ![c] = "v_verdict"]
       \/ /\ pc' = [pc EXCEPT ![c] = "v_verdict"]
          /\ UNCHANGED <<fs, created, nextTmp, vid>>
    /\ UNCHANGED <<entry, fileName, fileData, tempFilePath, result, cap, ran, agg, env>>

\* Lines 230-235: the extracted track is analyzed and its file unlinked; a
\* failing unlink is swallowed by the handler of line 234.
VideoAnalyzeAudioOn(c, decodes) ==
    /\ pc[c] = "v_audio"
    /\ \E dec \in decodes :
        /\ dec.ok => vid[c].audio_path \in fs
        /\ vid' = [vid EXCEPT ![c].audio_result = AnalyzeAudioLsb(dec)]
    /\ \/ /\ vid[c].audio_path \in fs
          /\ fs' = fs \ {vid[c].audio_path}
       \/ fs' = fs
    /\ pc' = [pc EXCEPT ![c] = "v_verdict"]
    /\ UNCHANGED <<entry, fileName, fileData, tempFilePath, result, cap, nextTmp,
                   created, ran, agg, env>>

\* Any decode outcome of the extracted track.
VideoAnalyzeAudio(c) == VideoAnalyzeAudioOn(c, AudioDecodes)

\* Lines 237-275 and 513: the verdict of the video path.
VideoReturn(c) ==
    /\ pc[c] = "v_verdict"
    /\ result' = [result EXCEPT ![c] =
                    SetKey(VideoVerdict(vid[c].suspicious_frames, vid[c].n_frames,
                                        vid[c].audio_result),
                           "mediaType", "video")]
    /\ pc' = [pc EXCEPT ![c] = "m_cleanup"]
    /\ UNCHANGED <<entry, fileName, fileData, tempFilePath, cap, vid, fs, nextTmp,
                   created, ran, agg, env>>

(***************************************************************************)
(* test_media_steganography.test_steganography_detection, audio part       *)
(***************************************************************************)
\* Lines 100-134: a clip is generated, with or without the embedded message,
\* and detect_media_steganography is called on its bytes and name.
TestAudioCall(c) ==
    /\ pc[c] = "idle"
    /\ \E samples \in Clips, with_steganography \in BOOLEAN, words \in MessageWords :
        fileData' = [fileData EXCEPT ![c] =
                       WavClip(IF with_steganography
                               THEN Widen(EmbedAlternating(samples), words)
                               ELSE samples)]
    /\ fileName' = [fileName EXCEPT ![c] = TestAudioName]
    /\ entry' = [entry EXCEPT ![c] = "media"]
    /\ pc' = [pc EXCEPT ![c] = "m_dispatch"]
    /\ UNCHANGED <<tempFilePath, result, cap, vid, fs, nextTmp, created, ran, agg, env>>

(***************************************************************************)
(* The image-only entry points                                             *)
(***************************************************************************)
\* advanced_lsb_detector.analyze_image(image_data)
LsbAnalyzeImage(c) ==
    /\ pc[c] = "idle"
    /\ \E img \in LsbLoads, strict \in BOOLEAN :
        /\ result' = [result EXCEPT ![c] = AnalyzeImageLsb(img, strict)]
        /\ env' = [env EXCEPT ![c] = [kind |-> "image", img |-> img, strict |-> strict]]
    /\ entry' = [entry EXCEPT ![c] = "lsb"]
    /\ pc' = [pc EXCEPT ![c] = "done"]
    /\ UNCHANGED <<fileName, fileData, tempFilePath, cap, vid, fs, nextTmp, created, ran,
                   agg>>

\* advanced_steganography.analyze_image(image_path)
AdvAnalyzeImage(c) ==
    /\ pc[c] = "idle"
    /\ \E img \in LsbLoads, strict \in BOOLEAN :
        /\ result' = [result EXCEPT ![c] = AnalyzeImageAdv(img, strict)]
        /\ env' = [env EXCEPT ![c] = [kind |-> "image", img |-> img, strict |-> strict]]
    /\ entry' = [entry EXCEPT ![c] = "adv"]
    /\ pc' = [pc EXCEPT ![c] = "done"]
    /\ UNCHANGED <<fileName, fileData, tempFilePath, cap, vid, fs, nextTmp, created, ran,
                   agg>>

(***************************************************************************)
(* SteganographyDetector.detect_steganography                              *)
(***************************************************************************)
\* detect_steganography(image_data) is called.
AggCall(c) ==
    /\ pc[c] = "idle"
    /\ entry' = [entry EXCEPT ![c] = "agg"]
    /\ pc' = [pc EXCEPT ![c] = "a_temp"]
    /\ UNCHANGED <<fileName, fileData, tempFilePath, result, cap, vid, fs, nextTmp,
                   created, ran, agg, env>>

\* Lines 46-49: the temporary .png is created (delete=False) and written;
\* creating it may raise, and so may writing it, which leaves the file.
AggTempFile(c) ==
    /\ pc[c] = "a_temp"
    /\ \/ /\ fs' = fs \cup {NamedTemporaryFile(nextTmp)}
          /\ created' = [created EXCEPT ![c] = @ \cup {NamedTemporaryFile(nextTmp)}]
          /\ tempFilePath' = [tempFilePath EXCEPT ![c] = NamedTemporaryFile(nextTmp)]
          /\ nextTmp' = nextTmp + 1
          /\ pc' = [pc EXCEPT ![c] = "a_lsb"]
       \/ /\ pc' = [pc EXCEPT ![c] = "a_except"]
          /\ UNCHANGED <<fs, created, tempFilePath, nextTmp>>
       \/ /\ fs' = fs \cup {NamedTemporaryFile(nextTmp)}
          /\ created' = [created EXCEPT ![c] = @ \cup {NamedTemporaryFile(nextTmp)}]
          /\ nextTmp' = nextTmp + 1
          /\ pc' = [pc EXCEPT ![c] = "a_except"]
          /\ UNCHANGED tempFilePath
    /\ UNCHANGED <<entry, fileName, fileData, result, cap, vid, ran, agg, env>>

\* Lines 53-57: detect_lsb runs; the external tools follow only if its
\* confidence is below 0.8.
AggDetectLsbOn(c, lsb_results) ==
    /\ pc[c] = "a_lsb"
    /\ \E lsb_result \in lsb_results :
        /\ agg' = [agg EXCEPT ![c].details = SetKey(@, "lsb_analysis", lsb_result),
                              ![c].invoked = Append(@, "lsb_analysis")]
        /\ pc' = [pc EXCEPT ![c] = IF RunExternalTools(lsb_result)
                                   THEN "a_stegexpose" ELSE "a_aggregate"]
    /\ UNCHANGED <<entry, fileName, fileData, tempFilePath, result, cap, vid, fs, nextTmp,
                   created, ran, env>>

\* Any sub-result of detect_lsb.
AggDetectLsb(c) == AggDetectLsbOn(c, DetectLsbResults)

\* Lines 58-63: detect_stegexpose, which turns its own failures into the
\* error sub-result.  The tool scores the file only if it exists.
AggDetectStegExposeOn(c, stegexpose_results) ==
    /\ pc[c] = "a_stegexpose"
    /\ \E stegexpose_result \in stegexpose_results :
        /\ ~HasKey(stegexpose_result, "error") => tempFilePath[c] \in fs
        /\ agg' = [agg EXCEPT ![c].details = SetKey(@, "stegexpose", stegexpose_result),
                              ![c].invoked = Append(@, "stegexpose")]
    /\ pc' = [pc EXCEPT ![c] = "a_openstego"]
    /\ UNCHANGED <<entry, fileName, fileData, tempFilePath, result, cap, vid, fs, nextTmp,
                   created, ran, env>>

\* Any sub-result of detect_stegexpose.
AggDetectStegExpose(c) == AggDetectStegExposeOn(c, DetectStegExposeResults)

\* Lines 65-70: detect_openstego, likewise: it extracts only from a file
\* that exists.
AggDetectOpenStegoOn(c, openstego_results) ==
    /\ pc[c] = "a_openstego"
    /\ \E openstego_result \in openstego_results :
        /\ openstego_result.detected => tempFilePath[c] \in fs
        /\ agg' = [agg EXCEPT ![c].details = SetKey(@, "openstego", openstego_result),
                              ![c].invoked = Append(@, "openstego")]
    /\ pc' = [pc EXCEPT ![c] = "a_aggregate"]
    /\ UNCHANGED <<entry, fileName, fileData, tempFilePath, result, cap, vid, fs, nextTmp,
                   created, ran, env>>

\* Any sub-result of detect_openstego.
AggDetectOpenStego(c) == AggDetectOpenStegoOn(c, DetectOpenStegoResults)

\* Lines 72-102: the sub-results are aggregated; the finally clause unlinks
\* the temporary file, swallowing a failure; the results are returned.
AggReturn(c) ==
    /\ pc[c] = "a_aggregate"
    /\ result' = [result EXCEPT ![c] = Aggregate(agg[c].details)]
    /\ \/ /\ tempFilePath[c] \in fs
          /\ fs' = fs \ {tempFilePath[c]}
       \/ fs' = fs
    /\ pc' = [pc EXCEPT ![c] = "done"]
    /\ UNCHANGED <<entry, fileName, fileData, tempFilePath, cap, vid, nextTmp, created,
                   ran, agg, env>>

\* Lines 104-111: an exception outside the inner try gives the error verdict.
AggExcept(c) ==
    /\ pc[c] = "a_except"
    /\ result' = [result EXCEPT ![c] =
                    [hasSteganography |-> FALSE,
                     confidence |-> Zero,
                     error |-> "agg",
                     detectionMethods |-> <<>>]]
    /\ pc' = [pc EXCEPT ![c] = "done"]
    /\ UNCHANGED <<entry, fileName, fileData, tempFilePath, cap, vid, fs, nextTmp,
                   created, ran, agg, env>>

(***************************************************************************)
(* extract_lsb_plane applied to a raster, and to the plane it returned     *)
(***************************************************************************)
\* extract_lsb_plane(image) of one of the modules is called on a raster.
PlaneCall(c) ==
    /\ pc[c] = "idle"
    /\ \E module \in {"media", "lsb"}, image \in Rasters :
        env' = [env EXCEPT ![c] = [kind |-> "raster", module |-> module,
                                   image |-> image, planes |-> <<>>]]
    /\ entry' = [entry EXCEPT ![c] = "plane"]
    /\ pc' = [pc EXCEPT ![c] = "p_apply"]
    /\ UNCHANGED <<fileName, fileData, tempFilePath, result, cap, vid, fs, nextTmp,
                   created, ran, agg>>

\* The function runs: first on the raster, then on the plane it returned.
\* An exception ends the sequence.
ExtractLsbPlaneStep(c) ==
    /\ pc[c] = "p_apply"
    /\ LET e == env[c]
           input == IF e.planes = <<>> THEN e.image
                    ELSE [shape |-> e.planes[1].shape, data |-> e.planes[1].data]
           out == ExtractLsbPlane(e.module, input)
       IN  /\ env' = [env EXCEPT ![c].planes = Append(@, out)]
           /\ pc' = [pc EXCEPT ![c] =
                       IF out.raised \/ Len(e.planes) = 1 THEN "done" ELSE "p_apply"]
    /\ UNCHANGED <<entry, fileName, fileData, tempFilePath, result, cap, vid, fs,
                   nextTmp, created, ran, agg>>

(***************************************************************************)
(* histogram_slope_analysis applied to a histogram                         *)
(***************************************************************************)
\* histogram_slope_analysis runs on a raster with some intensity histogram.
SlopeCall(c) ==
    /\ pc[c] = "idle"
    /\ \E hist \in Histograms :
        env' = [env EXCEPT ![c] = [kind |-> "hist", hist |-> hist,
                                   slope_changes |-> HistogramSlopeAnalysis(hist)]]
    /\ entry' = [entry EXCEPT ![c] = "slope"]
    /\ pc' = [pc EXCEPT ![c] = "done"]
    /\ UNCHANGED <<fileName, fileData, tempFilePath, result, cap, vid, fs, nextTmp,
                   created, ran, agg>>

(***************************************************************************)
(* rs_analysis applied to a grey raster                                    *)
(***************************************************************************)
\* rs_analysis of one of the modules runs on a grey raster.
RsCall(c) ==
    /\ pc[c] = "idle"
    /\ \E module \in {"media", "lsb"}, gray \in RsRasters :
        env' = [env EXCEPT ![c] =
                  [kind |-> "rs", module |-> module, gray |-> gray,
                   out |-> IF module = "media" THEN RsAnalysisRasterMedia(gray)
                           ELSE RsAnalysisRasterLsb(gray)]]
    /\ entry' = [entry EXCEPT ![c] = "rs"]
    /\ pc' = [pc EXCEPT ![c] = "done"]
    /\ UNCHANGED <<fileName, fileData, tempFilePath, result, cap, vid, fs, nextTmp,
                   created, ran, agg>>

(***************************************************************************)
(* MediaSecurityService.analyze_media_file                                 *)
(***************************************************************************)
\* analyze_media_file(file_data, file_name) is called.
SecCall(c) ==
    /\ pc[c] = "idle"
    /\ \E name \in FileNames : fileName' = [fileName EXCEPT ![c] = name]
    /\ entry' = [entry EXCEPT ![c] = "security"]
    /\ pc' = [pc EXCEPT ![c] = "s_analyze"]
    /\ UNCHANGED <<fileData, tempFilePath, result, cap, vid, fs, nextTmp, created, ran,
                   agg, env>>

\* Lines 91-187, whose results dictionary is kept in env[c].results.  The temp file is made (creating or writing it may raise,
\* which gives the error result of line 176); the stages run on it and on
\* the bytes; the finally clause unlinks it, swallowing a failure.  The
\* steganography sub-result carries the media type detect_media_steganography
\* gives the same name.
SecAnalyze(c) ==
    /\ pc[c] = "s_analyze"
    /\ LET file_ext == Lower(SplitExt(fileName[c]))
           tmp == NamedTemporaryFile(nextTmp)
       IN  \/ /\ env' = [env EXCEPT ![c] =
                    [kind |-> "security", failed |-> TRUE,
                     results |->
                         [fileName |-> fileName[c],
                          error |-> "security",
                          securityStatus |->
                              [isSafe |-> FALSE, threatLevel |-> StrLevel("unknown"),
                               warnings |->
                                   <<"Analysis failed - treat file with caution">>]]]]
              /\ \/ UNCHANGED <<fs, nextTmp, created>>
                 \/ /\ created' = [created EXCEPT ![c] = @ \cup {tmp}]
                    /\ nextTmp' = nextTmp + 1
                    /\ \/ fs' = fs
                       \/ fs' = fs \cup {tmp}
           \/ /\ \E o \in SecOutcomes :
                    LET stages == SecurityStages(file_ext, o)
                    IN  env' = [env EXCEPT ![c] =
                              [kind |-> "security", failed |-> FALSE,
                               outcomes |-> o, stages |-> stages,
                               results |->
                                   [fileName |-> fileName[c],
                                    fileType |-> DetermineFileType(file_ext),
                                    securityStatus |-> stages[6],
                                    analysis |->
                                        [steganography |->
                                             SetKey(o.stego, "mediaType",
                                                    MediaTypeOf(file_ext))]]]]
              /\ created' = [created EXCEPT ![c] = @ \cup {tmp}]
              /\ nextTmp' = nextTmp + 1
              /\ \/ fs' = fs
                 \/ fs' = fs \cup {tmp}
    /\ pc' = [pc EXCEPT ![c] = "done"]
    /\ UNCHANGED <<entry, fileName, fileData, tempFilePath, result, cap, vid, ran, agg>>

Next ==
    \E c \in Solo :
        \/ CallDetectMedia(c)
        \/ TestAudioCall(c)
        \/ MediaDispatch(c)
        \/ SaveBufferToTempFile(c)
        \/ MediaAnalyzeAudio(c)
        \/ MediaAnalyzeImage(c)
        \/ MediaCleanup(c)
        \/ MediaExcept(c)
        \/ VideoOpen(c)
        \/ VideoSample(c)
        \/ VideoReadAll(c)
        \/ VideoFrames(c)
        \/ VideoFrame(c)
        \/ VideoExtractAudio(c)
        \/ VideoAnalyzeAudio(c)
        \/ VideoReturn(c)
        \/ AggCall(c)
        \/ AggTempFile(c)
        \/ AggDetectLsb(c)
        \/ AggDetectStegExpose(c)
        \/ AggDetectOpenStego(c)
        \/ AggReturn(c)
        \/ AggExcept(c)
        \/ LsbAnalyzeImage(c)
        \/ AdvAnalyzeImage(c)
        \/ PlaneCall(c)
        \/ ExtractLsbPlaneStep(c)
        \/ SlopeCall(c)
        \/ RsCall(c)
        \/ SecCall(c)
        \/ SecAnalyze(c)

Spec == Init /\ [][Next]_vars

(***************************************************************************)
(* Two calls at once                                                       *)
(***************************************************************************)
\* The files and outcomes the two interleaved calls are run on: one name of
\* each media type, one clip, a failing and a succeeding decode, a video of
\* no frame, of one frame read in order and of one frame reached by
\* sampling, and a few sub-results of each detection method.
PairNames ==
    {<<"a", ".", "m", "p", "3">>, <<"v", ".", "A", "v", "i">>,
     <<"i", ".", "J", "P", "E", "G">>, <<"a", ".", "e", "x", "e">>, ClipName}

PairClip == <<1, 0>>

PairDecodes == {[ok |-> FALSE], [ok |-> TRUE, plane |-> LsbCounts(PairClip)]}

PairStreams == {<<0, 0>>, <<1, 1>>, <<MaxFrames + 1, 1>>}

PairImages ==
    {[decoded |-> FALSE, plane |-> BlankPlane, rs |-> BlankRs, groups |-> RsGroups]}

PairPlanes == {<<SmallPlane, 0>>}

PairLsbResults ==
    {MethodError("lsb"),
     LsbScore([zeros |-> 1, ones |-> 0, transitions |-> 0]),
     LsbScore([zeros |-> AggPixels \div 2, ones |-> AggPixels - AggPixels \div 2,
               transitions |-> AggPixels - 1])}

PairStegExposeResults ==
    {MethodError("stegexpose"),
     [detected |-> TRUE, confidence |-> Milli(950), fusion_score |-> One]}

PairOpenStegoResults ==
    {MethodError("openstego"), [detected |-> TRUE, confidence |-> Milli(850)]}

NextPair ==
    \E c \in Calls :
        \/ CallDetectMediaOn(c, PairNames, {PairClip})
        \/ MediaDispatch(c)
        \/ SaveBufferToTempFile(c)
        \/ MediaAnalyzeAudioOn(c, PairDecodes)
        \/ MediaAnalyzeImageOn(c, PairImages, {{}})
        \/ MediaCleanup(c)
        \/ MediaExcept(c)
        \/ VideoOpenOn(c, PairStreams)
        \/ VideoSample(c)
        \/ VideoReadAll(c)
        \/ VideoFrames(c)
        \/ VideoFrameOn(c, PairPlanes)
        \/ VideoExtractAudio(c)
        \/ VideoAnalyzeAudioOn(c, PairDecodes)
        \/ VideoReturn(c)
        \/ AggCall(c)
        \/ AggTempFile(c)
        \/ AggDetectLsbOn(c, PairLsbResults)
        \/ AggDetectStegExposeOn(c, PairStegExposeResults)
        \/ AggDetectOpenStegoOn(c, PairOpenStegoResults)
        \/ AggReturn(c)
        \/ AggExcept(c)

SpecPair == Init /\ [][NextPair]_vars

(***************************************************************************)
(* Properties                                                              *)
(***************************************************************************)
\* C1: detect_media_steganography returns, for every file name and content,
\* a verdict that holds hasSteganography as a boolean and confidence as a
\* number in [0, 1].
C1_StructuredVerdict ==
    \A c \in Calls :
        entry[c] = "media" /\ pc[c] = "done" =>
            /\ HasKey(result[c], "hasSteganography")
            /\ result[c].hasSteganography \in BOOLEAN
            /\ HasKey(result[c], "confidence")
            /\ ~IsNaN(result[c].confidence)
            /\ RGe(result[c].confidence, Zero)
            /\ RLe(result[c].confidence, One)

\* A call with the empty name has returned its verdict.
C1_Witness ==
    \E c \in Calls :
        /\ entry[c] = "media" /\ pc[c] = "done"
        /\ fileName[c] = <<>>
        /\ result[c].hasSteganography = FALSE

\* C2: a verdict returned by an entry point (detect_media_steganography,
\* analyze_audio_lsb, analyze_video, each analyze_image,
\* SteganographyDetector.detect_steganography) that carries an error field
\* has its detected / hasSteganography flag false and its confidence 0.
C2_ErrorMeansNoDetection ==
    \A c \in Calls :
        /\ pc[c] = "done" /\ HasKey(result[c], "error") =>
             /\ ~(IF entry[c] = "lsb" THEN result[c].detected
                  ELSE result[c].hasSteganography)
             /\ result[c].confidence = Zero
        /\ HasKey(vid[c].audio_result, "error") =>
             /\ ~vid[c].audio_result.hasSteganography
             /\ vid[c].audio_result.confidence = Zero

\* analyze_video returned an error verdict from inside its frame loop.
C2_Witness ==
    \E c \in Calls :
        /\ pc[c] = "done" /\ entry[c] = "media"
        /\ HasKey(result[c], "error")
        /\ result[c].mediaType = "video"
        /\ vid[c].n_frames > 0

\* C3 as stated: an extension outside the three sets gives the unknown
\* verdict at once with no temp file and no analysis; an extension in one of
\* the sets, in any letter case, makes exactly the matching path run and
\* mediaType name it.
C3_Original ==
    \A c \in Calls :
        entry[c] = "media" /\ pc[c] = "done" =>
            LET audio == { <<"a", ".", "m", "p", "3">>, <<"a", ".", "M", "P", "3">>,
                           <<"a", ".", "W", "a", "v">>, TestAudioName }
                video == { <<"v", ".", "A", "v", "i">> }
                image == { <<"i", ".", "J", "P", "E", "G">>,
                           <<"i", ".", "m", "p", "4", ".", "g", "i", "f">> }
                kind == IF fileName[c] \in audio THEN "audio"
                        ELSE IF fileName[c] \in video THEN "video"
                        ELSE IF fileName[c] \in image THEN "image"
                        ELSE "unknown"
            IN  IF kind = "unknown"
                THEN /\ result[c].mediaType = "unknown"
                     /\ result[c].hasSteganography = FALSE
                     /\ result[c].confidence = Zero
                     /\ HasKey(result[c], "error")
                     /\ created[c] = {}
                     /\ ran[c] = {}
                ELSE /\ ran[c] = {kind}
                     /\ result[c].mediaType = kind

\* C3, amended: as stated, except that when writing the temp copy of an audio
\* or video file raises, no analysis runs and the fallback verdict (mediaType
\* unknown, no detection, confidence 0, an error) is returned.
C3_Dispatch ==
    \A c \in Calls :
        entry[c] = "media" /\ pc[c] = "done" =>
            LET audio == { <<"a", ".", "m", "p", "3">>, <<"a", ".", "M", "P", "3">>,
                           <<"a", ".", "W", "a", "v">>, TestAudioName }
                video == { <<"v", ".", "A", "v", "i">> }
                image == { <<"i", ".", "J", "P", "E", "G">>,
                           <<"i", ".", "m", "p", "4", ".", "g", "i", "f">> }
                kind == IF fileName[c] \in audio THEN "audio"
                        ELSE IF fileName[c] \in video THEN "video"
                        ELSE IF fileName[c] \in image THEN "image"
                        ELSE "unknown"
                saved == tempFilePath[c] # 0
            IN  IF kind = "unknown"
                THEN /\ result[c].mediaType = "unknown"
                     /\ result[c].hasSteganography = FALSE
                     /\ result[c].confidence = Zero
                     /\ HasKey(result[c], "error")
                     /\ created[c] = {}
                     /\ ran[c] = {}
                ELSE IF kind = "image" \/ saved
                THEN /\ ran[c] = {kind}
                     /\ result[c].mediaType = kind
                ELSE /\ ran[c] = {}
                     /\ result[c].mediaType = "unknown"
                     /\ result[c].hasSteganography = FALSE
                     /\ result[c].confidence = Zero
                     /\ HasKey(result[c], "error")

\* A call with an upper-case audio extension whose temp copy could not be
\* written came back with the fallback verdict and no analysis.
C3_Witness ==
    \E c \in Calls :
        /\ entry[c] = "media" /\ pc[c] = "done"
        /\ fileName[c] = <<"a", ".", "M", "P", "3">>
        /\ tempFilePath[c] = 0
        /\ ran[c] = {}
        /\ result[c].mediaType = "unknown"

\* C4: in both indicator-counting analyze_image functions detected is true
\* exactly when at least 3 of the 4 indicators are set; the confidence is 0.6
\* with 3 set, 0.95 with 4 set and 0 with fewer.
C4_IndicatorCounting ==
    \A c \in Calls :
        entry[c] \in {"lsb", "adv"} /\ pc[c] = "done" /\ ~HasKey(result[c], "error") =>
            LET d == IF entry[c] = "lsb" THEN result[c].details
                     ELSE result[c].detectionsByMethod
                detected == IF entry[c] = "lsb" THEN result[c].detected
                            ELSE result[c].hasSteganography
                set == (IF RLt(d.chi_square_p, Rat(5, 100)) THEN 1 ELSE 0)
                       + (IF RGt(d.lsb_entropy, Rat(9, 10)) THEN 1 ELSE 0)
                       + (IF RLt(RAbs(RSub(d.rs_regular, d.rs_singular)), Rat(5, 100))
                          THEN 1 ELSE 0)
                       + (IF d.histogram_slope_changes > 100 THEN 1 ELSE 0)
            IN  /\ detected = (set >= 3)
                /\ set = 3 => result[c].confidence = Rat(6, 10)
                /\ set = 4 => result[c].confidence = Rat(95, 100)
                /\ set < 3 => result[c].confidence = Zero

\* A verdict with exactly 3 indicators set: detected, confidence 0.6.
C4_Witness ==
    \E c \in Calls :
        /\ entry[c] = "lsb" /\ pc[c] = "done" /\ ~HasKey(result[c], "error")
        /\ result[c].detected
        /\ result[c].confidence = Rat(6, 10)
        /\ result[c].details.histogram_slope_changes <= 100

\* C5: analyze_image of the media module adds points and confidence
\* increments by band (chi-square p < 0.001 / 0.01 / 0.05: 3/2/1 and
\* 0.4/0.3/0.2; entropy > 0.98 / 0.95 / 0.9: 3/2/1 and 0.3/0.2/0.1; RS gap
\* < 0.05 / 0.1: 2/1 and 0.2/0.1); hasSteganography is true exactly when the
\* points are at least 3; confidence is min(1.0, 0.3 + increments), or 0 when
\* no band was hit.
C5_WeightedScoring ==
    \A c \in Calls :
        /\ entry[c] = "media" /\ pc[c] = "done"
        /\ result[c].mediaType = "image" /\ ~HasKey(result[c], "error")
        => LET v == result[c]
               gap == RAbs(RSub(v.rs_regular, v.rs_singular))
               chiPts == IF RLt(v.chi_square_p, Rat(1, 1000)) THEN <<3, 4>>
                         ELSE IF RLt(v.chi_square_p, Rat(1, 100)) THEN <<2, 3>>
                         ELSE IF RLt(v.chi_square_p, Rat(5, 100)) THEN <<1, 2>>
                         ELSE <<0, 0>>
               entPts == IF RGt(v.lsb_entropy, Rat(98, 100)) THEN <<3, 3>>
                         ELSE IF RGt(v.lsb_entropy, Rat(95, 100)) THEN <<2, 2>>
                         ELSE IF RGt(v.lsb_entropy, Rat(9, 10)) THEN <<1, 1>>
                         ELSE <<0, 0>>
               rsPts == IF RLt(gap, Rat(5, 100)) THEN <<2, 2>>
                        ELSE IF RLt(gap, Rat(1, 10)) THEN <<1, 1>>
                        ELSE <<0, 0>>
               points == chiPts[1] + entPts[1] + rsPts[1]
               tenths == chiPts[2] + entPts[2] + rsPts[2]
           IN  /\ v.hasSteganography = (points >= 3)
               /\ v.indicator_score = points
               /\ v.confidence = IF tenths = 0 THEN Zero
                                 ELSE IF 3 + tenths > 10 THEN One
                                 ELSE Rat(3 + tenths, 10)

\* An image verdict with every test in its top band: 8 points, 0.3 + 0.9
\* capped to 1.0.
C5_Witness ==
    \E c \in Calls :
        /\ entry[c] = "media" /\ pc[c] = "done"
        /\ result[c].mediaType = "image" /\ ~HasKey(result[c], "error")
        /\ result[c].indicator_score = 8
        /\ result[c].confidence = One

\* C6 as stated: every audio verdict computed from the samples reports
\* hasSteganography = true if p < 0.05 or entropy > 0.97.
C6_Original ==
    \A c \in Calls :
        /\ (/\ pc[c] = "done" /\ entry[c] = "media"
            /\ result[c].mediaType = "audio" /\ ~HasKey(result[c], "error"))
           => (RLt(result[c].chi_square_p, Rat(5, 100))
               \/ RGt(result[c].lsb_entropy, Rat(97, 100))
               => result[c].hasSteganography)
        /\ (vid[c].audio_result # None /\ ~HasKey(vid[c].audio_result, "error"))
           => (RLt(vid[c].audio_result.chi_square_p, Rat(5, 100))
               \/ RGt(vid[c].audio_result.lsb_entropy, Rat(97, 100))
               => vid[c].audio_result.hasSteganography)

\* C7 as stated: a clip whose sample LSBs are the alternating message
\* 1,0,1,0,..., the plane holding as many zeros as ones, is reported by
\* detect_media_steganography with hasSteganography = true and confidence
\* at least 0.7.
C7_Original ==
    \A c \in Calls :
        /\ pc[c] = "done" /\ entry[c] = "media"
        /\ fileData[c].kind = "clip"
        /\ Len(fileData[c].samples) > 0
        /\ \A i \in 1..Len(fileData[c].samples) : fileData[c].samples[i] % 2 = i % 2
        /\ LsbCounts(fileData[c].samples)[1] = LsbCounts(fileData[c].samples)[2]
        /\ result[c].mediaType = "audio" /\ ~HasKey(result[c], "error")
        => /\ result[c].hasSteganography
           /\ RGe(result[c].confidence, Rat(7, 10))

\* C8 as stated: the video confidence before blending lies in the band of
\* the suspicious ratio r: r > 0.5 in [0.7, 1.0]; 0.3 < r <= 0.5 in
\* [0.5, 0.7]; 0.1 < r <= 0.3 in [0.3, 0.5]; r <= 0.1 in [0, 0.3].
C8_Original ==
    \A c \in Calls :
        pc[c] = "v_verdict" =>
            LET r == Rat(vid[c].suspicious_frames, vid[c].n_frames)
                v == VideoConfidence(vid[c].suspicious_frames, vid[c].n_frames)[2]
                within(lo, hi) == RGe(v, lo) /\ RLe(v, hi)
            IN  IF RGt(r, Rat(5, 10)) THEN within(Rat(7, 10), One)
                ELSE IF RGt(r, Rat(3, 10)) THEN within(Rat(5, 10), Rat(7, 10))
                ELSE IF RGt(r, Rat(1, 10)) THEN within(Rat(3, 10), Rat(5, 10))
                ELSE within(Zero, Rat(3, 10))

\* C9: in the verdict of the video path, a flagging audio verdict gives
\* hasSteganography = true and confidence min(1.0, (2 * video + audio) / 3);
\* an absent, errored or unflagging one leaves flag and confidence as the
\* frames gave them; the confidence never exceeds 1.0.
C9_AudioBlend ==
    \A c \in Calls :
        /\ pc[c] = "done" /\ entry[c] = "media"
        /\ result[c].mediaType = "video" /\ ~HasKey(result[c], "error")
        => LET v == result[c]
               a == v.audioSteganography
               frames == VideoConfidence(v.suspiciousFrames, v.framesAnalyzed)
               flagged == IF a = None \/ HasKey(a, "error") THEN FALSE
                          ELSE a.hasSteganography
           IN  /\ flagged =>
                    /\ v.hasSteganography
                    /\ v.confidence =
                         RMin(One, RDivInt(RAdd(RMul(frames[2], Rat(2, 1)),
                                                a.confidence), 3))
               /\ ~flagged =>
                    /\ v.hasSteganography = frames[1]
                    /\ v.confidence = frames[2]
               /\ RLe(v.confidence, One)

\* No frame was suspicious and the audio track was flagged with 0.9: the
\* video is reported with confidence 0.3.
C9_Witness ==
    \E c \in Calls :
        /\ pc[c] = "done" /\ entry[c] = "media"
        /\ result[c].mediaType = "video" /\ ~HasKey(result[c], "error")
        /\ result[c].suspiciousFrames = 0
        /\ result[c].audioSteganography # None
        /\ result[c].hasSteganography
        /\ result[c].confidence = Rat(3, 10)

\* C10 as stated: extract_frames_from_video returns at most max_frames
\* frames whatever the container reports and the stream delivers; when the
\* report is the number of frames delivered, it returns all frames of a video
\* with no more than max_frames, and otherwise frames at strictly increasing
\* indices from 0 to frame_count - 1.
C10_Original ==
    \A c \in Calls :
        pc[c] = "v_frames" /\ cap[c].opened =>
            LET frames == cap[c].frames
            IN  /\ Len(frames) <= MaxFrames
                /\ cap[c].frame_count = cap[c].stream /\ cap[c].stream <= MaxFrames =>
                     frames = [i \in 1..cap[c].stream |-> i - 1]
                /\ cap[c].frame_count = cap[c].stream /\ cap[c].stream > MaxFrames =>
                     /\ \A i \in 1..(Len(frames) - 1) : frames[i] < frames[i + 1]
                     /\ frames[1] = 0
                     /\ frames[Len(frames)] = cap[c].frame_count - 1

\* C11 as stated: the overall confidence of the aggregator is the weighted
\* average of the confidences of the sub-results that did not error, the LSB
\* sub-result with weight 2 and each external tool with weight 1; a
\* sub-result that carries an error field counts in neither the numerator
\* nor the denominator.
C11_Original ==
    \A c \in Calls :
        entry[c] = "agg" /\ pc[c] = "done" /\ ~HasKey(result[c], "error") =>
            LET d == result[c].detailsByMethod
                counts(method) == method \in DOMAIN d /\ ~HasKey(d[method], "error")
                part(method, weight) ==
                    IF counts(method)
                    THEN <<RMul(d[method].confidence, Rat(weight, 1)), weight>>
                    ELSE <<Zero, 0>>
                lsb == part("lsb_analysis", 2)
                se == part("stegexpose", 1)
                os == part("openstego", 1)
                total == lsb[2] + se[2] + os[2]
            IN  result[c].confidence =
                    IF total > 0
                    THEN RDivInt(RAdd(RAdd(lsb[1], se[1]), os[1]), total)
                    ELSE Zero

\* C12: the overall hasSteganography flag of the aggregator is true exactly
\* when a sub-result that did not error has detected = true, and
\* detectionMethods lists exactly the names of those methods; an errored
\* sub-result never sets the flag.
C12_FlagIsOrOfMethods ==
    \A c \in Calls :
        entry[c] = "agg" /\ pc[c] = "done" /\ ~HasKey(result[c], "error") =>
            LET d == result[c].detailsByMethod
                hit == {method \in DOMAIN d :
                          ~HasKey(d[method], "error") /\ d[method].detected}
                listed == {result[c].detectionMethods[k] :
                             k \in 1..Len(result[c].detectionMethods)}
            IN  /\ result[c].hasSteganography = (hit # {})
                /\ listed = hit
                /\ Len(result[c].detectionMethods) = Cardinality(hit)
                /\ \A method \in DOMAIN d :
                       HasKey(d[method], "error") => method \notin listed

\* Only StegExpose detected, the LSB analysis did not and OpenStego failed:
\* the flag is set and StegExpose alone is listed.
C12_Witness ==
    \E c \in Calls :
        /\ entry[c] = "agg" /\ pc[c] = "done" /\ ~HasKey(result[c], "error")
        /\ result[c].hasSteganography
        /\ result[c].detectionMethods = <<"stegexpose">>
        /\ ~result[c].detailsByMethod["lsb_analysis"].detected
        /\ HasKey(result[c].detailsByMethod["openstego"], "error")

\* C13: the external tools are invoked only after the LSB analysis has
\* finished and only if its confidence is below 0.8; with an LSB confidence
\* of 0.8 or more neither tool is invoked and the overall verdict is that of
\* the LSB analysis; a failing StegExpose does not keep OpenStego from being
\* invoked.
C13_ExternalToolsPolicy ==
    \A c \in Calls :
        entry[c] = "agg" =>
            LET called == agg[c].invoked
                d == agg[c].details
                tools == {k \in 1..Len(called) : called[k] # "lsb_analysis"}
            IN  /\ tools # {} =>
                     /\ called[1] = "lsb_analysis"
                     /\ 1 \notin tools
                     /\ RLt(d["lsb_analysis"].confidence, Rat(8, 10))
                /\ pc[c] = "done" /\ ~HasKey(result[c], "error") =>
                     IF RGe(d["lsb_analysis"].confidence, Rat(8, 10))
                     THEN /\ called = <<"lsb_analysis">>
                          /\ result[c].hasSteganography = d["lsb_analysis"].detected
                          /\ result[c].confidence = d["lsb_analysis"].confidence
                          /\ DOMAIN result[c].detailsByMethod = {"lsb_analysis"}
                     ELSE called = <<"lsb_analysis", "stegexpose", "openstego">>
                /\ pc[c] = "a_openstego" => HasKey(d, "stegexpose")

\* The LSB analysis reached 0.84 and the call returned with no tool invoked.
C13_Witness ==
    \E c \in Calls :
        /\ entry[c] = "agg" /\ pc[c] = "done" /\ ~HasKey(result[c], "error")
        /\ agg[c].invoked = <<"lsb_analysis">>
        /\ result[c].confidence = Rat(84, 100)
        /\ result[c].hasSteganography

\* C14 as stated: when exactly one test of the image battery of the media
\* module fails inside and returns its fallback, that test contributes
\* nothing to the verdict: no points, no confidence increment, and its name
\* is not among detectionMethods; the verdict is still returned.
C14_Original ==
    \A c \in Calls :
        /\ entry[c] = "media" /\ pc[c] = "done"
        /\ env[c].kind = "image" /\ ~env[c].raises
        /\ Cardinality(env[c].fails) = 1
        => LET v == result[c]
               chi == IF "chi" \in env[c].fails THEN <<0, Zero, <<>> >>
                      ELSE ChiBand(v.chi_square_p)
               ent == IF "entropy" \in env[c].fails THEN <<0, Zero, <<>> >>
                      ELSE EntropyBand(v.lsb_entropy)
               rs == IF "rs" \in env[c].fails THEN <<0, Zero, <<>> >>
                     ELSE RsBand(v.rs_regular, v.rs_singular)
               increments == RAdd(RAdd(chi[2], ent[2]), rs[2])
           IN  /\ ~HasKey(v, "error")
               /\ v.indicator_score = chi[1] + ent[1] + rs[1]
               /\ v.hasSteganography = (chi[1] + ent[1] + rs[1] >= 3)
               /\ v.confidence = IF RGt(increments, Zero)
                                 THEN RMin(RAdd(Rat(3, 10), increments), One)
                                 ELSE Zero
               /\ v.detectionMethods = chi[3] \o ent[3] \o rs[3]

\* C15 as stated: when every test of the image battery returned its
\* fallback (RS analysis its error fallback or, the raster holding no
\* complete block, 0 and 0, together with chi-square (0, 1.0) and entropy
\* 0.0), the verdict is no detection with confidence 0.
C15_Original ==
    \A c \in Calls :
        /\ entry[c] = "media" /\ pc[c] = "done"
        /\ env[c].kind = "image" /\ ~env[c].raises
        /\ {"chi", "entropy"} \subseteq env[c].fails
        /\ "rs" \in env[c].fails \/ env[c].img.groups = 0
        => /\ result[c].hasSteganography = FALSE
           /\ result[c].confidence = Zero

\* C17 as stated: a file that cannot be decoded as its type (image bytes
\* that do not load, audio that does not read, a video whose capture does
\* not open or gives no frame) gets a verdict with hasSteganography false,
\* confidence 0 and an error message.
C17_Original ==
    \A c \in Calls :
        entry[c] = "media" /\ pc[c] = "done" =>
            LET undecodable ==
                    \/ /\ env[c].kind = "image" /\ ~env[c].raises
                       /\ ~env[c].img.decoded
                    \/ env[c].kind = "audio" /\ ~env[c].dec.ok
                    \/ /\ "video" \in ran[c]
                       /\ result[c].mediaType = "video"
                       /\ vid[c].n_frames = 0
            IN  undecodable =>
                    /\ result[c].hasSteganography = FALSE
                    /\ result[c].confidence = Zero
                    /\ HasKey(result[c], "error")

\* C16 as stated: when detect_media_steganography has returned, every
\* temporary file the call created (the temp copy of the upload and the .wav
\* of extract_audio_from_video, also when the extraction failed) is deleted,
\* and an opened capture is released.  Stated for the calls that returned a
\* video verdict, the unlink calls the code makes taken to have succeeded:
\* the files it unlinks are gone.
C16_Original ==
    \A c \in Calls :
        /\ entry[c] = "media" /\ pc[c] = "done"
        /\ result[c].mediaType = "video"
        /\ tempFilePath[c] \notin fs
        /\ vid[c].audio_path \notin fs
        => /\ created[c] \cap fs = {}
           /\ cap[c].opened => cap[c].released

\* C19 as stated: on a raster whose LSB plane holds a single value (an
\* all-zero or constant image) the chi-square test and the entropy test of
\* each module return without raising, with entropy 0 and p-value 1.0, and
\* the verdict is not a detection.
C19_Original ==
    \A c \in Calls :
        /\ pc[c] = "done" /\ entry[c] \in {"media", "lsb", "adv"}
        /\ env[c].kind = "image"
        /\ entry[c] = "media" => ~env[c].raises /\ env[c].fails = {}
        /\ entry[c] # "media" => env[c].img.decoded
        /\ NumValues(env[c].img.plane) = 1
        => /\ ~HasKey(result[c], "error")
           /\ IF entry[c] = "media"
              THEN /\ result[c].chi_square_p = One
                   /\ result[c].lsb_entropy = Zero
                   /\ "Chi-Square Test" \notin
                          {result[c].detectionMethods[i] :
                              i \in DOMAIN result[c].detectionMethods}
                   /\ "Entropy Analysis" \notin
                          {result[c].detectionMethods[i] :
                              i \in DOMAIN result[c].detectionMethods}
              ELSE /\ result[c].details.chi_square_p = One
                   /\ result[c].details.lsb_entropy = Zero
                   /\ RsAnalysisLsb(env[c].img) = <<Zero, Zero>>
                      /\ env[c].img.slope = 0 => ~result[c].detected

\* C20 as stated: extract_lsb_plane returns a plane with the shape of the
\* luminance channel of its input whose every entry is that luminance (or
\* grey level) AND 1, hence 0 or 1; applied to the plane it returned, it
\* returns that plane unchanged.  Stated for the rasters the module's loader
\* produces (3 channels) and, in the media module, for grey rasters.
C20_Original ==
    \A c \in Calls :
        /\ entry[c] = "plane" /\ pc[c] = "done"
        /\ \/ Len(env[c].image.shape) = 3 /\ env[c].image.shape[3] = 3
           \/ Len(env[c].image.shape) = 2 /\ env[c].module = "media"
        => LET image == env[c].image
               planes == env[c].planes
               gray(i) == IF Len(image.shape) = 3 THEN Luminance(image.data[i])
                          ELSE image.data[i]
           IN  /\ ~planes[1].raised
               /\ planes[1].shape = <<image.shape[1], image.shape[2]>>
               /\ \A i \in DOMAIN image.data :
                      /\ planes[1].data[i] \in {0, 1}
                      /\ planes[1].data[i] = gray(i) % 2
               /\ Len(planes) = 2
               /\ ~planes[2].raised
               /\ planes[2] = planes[1]

\* C18: two calls of detect_media_steganography or detect_steganography,
\* interleaved in any order, share no mutable state: the temp files of the
\* two are distinct, the files a call reads are files it created, a file a
\* call has in use is not deleted by the other, and the verdict a call
\* returns is the one its own file gives: that of its own decode outcomes,
\* frames and sub-results, and for a clip of known samples the verdict of
\* those samples.
C18_NoSharedState ==
    /\ created[1] \cap created[2] = {}
    /\ \A c \in Calls :
        /\ tempFilePath[c] # 0 => tempFilePath[c] \in created[c]
        /\ vid[c].audio_path # 0 => vid[c].audio_path \in created[c]
        /\ pc[c] \in {"m_audio", "v_open", "v_sample", "v_readall", "v_frames",
                      "v_frame", "v_extract_audio", "v_audio", "v_verdict",
                      "a_lsb", "a_stegexpose", "a_openstego", "a_aggregate"}
               => tempFilePath[c] \in fs
        /\ pc[c] = "v_audio" => vid[c].audio_path \in fs
        /\ pc[c] = "done" /\ entry[c] = "media" /\ env[c].kind = "audio" =>
               /\ result[c] = SetKey(AnalyzeAudioLsb(env[c].dec), "mediaType", "audio")
               /\ fileData[c].kind = "clip" =>
                      env[c].dec = [ok |-> TRUE,
                                    plane |-> LsbCounts(fileData[c].samples)]
        /\ pc[c] = "done" /\ entry[c] = "media" /\ "video" \in ran[c]
           /\ vid[c].n_frames > 0 /\ ~HasKey(result[c], "error") =>
               result[c] = SetKey(VideoVerdict(vid[c].suspicious_frames,
                                               vid[c].n_frames, vid[c].audio_result),
                                  "mediaType", "video")
        /\ pc[c] = "done" /\ entry[c] = "agg" /\ ~HasKey(result[c], "error") =>
               result[c] = Aggregate(agg[c].details)

\* Witness of C18: the second call made its temp file first and still has it
\* in use, while the first call made its own after it, returned a verdict and
\* deleted its own file.
C18_Witness ==
    /\ pc[1] = "done" /\ entry[1] = "media" /\ ~HasKey(result[1], "error")
    /\ created[1] = {2} /\ 2 \notin fs
    /\ pc[2] = "a_openstego" /\ tempFilePath[2] = 1 /\ 1 \in fs

\* C21 as stated: histogram_slope_analysis returns the number of sign
\* changes of the first difference of the histogram: the count of adjacent
\* positions of the first difference whose signs differ.
C21_Original ==
    \A c \in Calls :
        entry[c] = "slope" /\ pc[c] = "done" =>
            LET diffs == Diff(env[c].hist)
            IN  env[c].slope_changes =
                    Cardinality({i \in 1..(Len(diffs) - 1) :
                                    Sign(diffs[i]) # Sign(diffs[i + 1])})

\* C22 as stated: analyze_image of the media module gives rs_analysis the
\* full-resolution raster for every image of at most 4,000,000 pixels and the
\* 1024x1024 copy only for an image of more than 4,000,000 pixels.
C22_Original ==
    \A c \in Calls :
        /\ entry[c] = "media" /\ pc[c] = "done"
        /\ env[c].kind = "image" /\ ~env[c].raises
        => LET pixels == env[c].shape[1] * env[c].shape[2]
           IN  /\ pixels <= 4000000 => env[c].rs_on = "full"
               /\ pixels > 4000000 => env[c].rs_on = "scaled"

\* C23: the regular and singular values rs_analysis returns are fractions of
\* the number of classified (block, mask) pairs: every pair is counted at
\* most once (regular, singular or neither), the denominator is the number
\* of pairs (the blocks, doubled for the two masks of the media module), each
\* fraction lies in [0, 1], their sum is at most 1, and both are 0 when the
\* raster holds no complete block.
C23_RsFractions ==
    \A c \in Calls :
        entry[c] = "rs" /\ pc[c] = "done" =>
            LET o == env[c].out
                side == IF env[c].module = "media" THEN 4 ELSE 2
                blocks == (env[c].gray.shape[1] \div side)
                          * (env[c].gray.shape[2] \div side)
            IN  /\ o.pairs = blocks * (IF env[c].module = "media" THEN 2 ELSE 1)
                /\ o.total = o.pairs
                /\ o.regular + o.singular <= o.pairs
                /\ RGe(o.r, Zero) /\ RLe(o.r, One)
                /\ RGe(o.s, Zero) /\ RLe(o.s, One)
                /\ RLe(RAdd(o.r, o.s), One)
                /\ o.total > 0 => o.r = Rat(o.regular, o.total)
                                  /\ o.s = Rat(o.singular, o.total)
                /\ blocks = 0 => o.r = Zero /\ o.s = Zero

\* Witness of C23: a raster of the media module with two blocks, both masks
\* applied to each, in which regular, singular and unclassified pairs all
\* occur.
C23_Witness ==
    \E c \in Calls :
        /\ entry[c] = "rs" /\ pc[c] = "done" /\ env[c].module = "media"
        /\ env[c].out.pairs = 4
        /\ env[c].out.regular > 0 /\ env[c].out.singular > 0
        /\ env[c].out.regular + env[c].out.singular < 4

C25_Original ==
    \A c \in Calls :
        /\ entry[c] = "media" /\ pc[c] = "done" /\ "video" \in ran[c]
        /\ ~HasKey(result[c], "error") /\ vid[c].n_frames > 0
        /\ ~(vid[c].audio_result # None
             /\ Get(vid[c].audio_result, "hasSteganography", FALSE))
        => \A fewer \in 0..(vid[c].suspicious_frames - 1) :
               RLe(VideoConfidence(fewer, vid[c].n_frames)[2], result[c].confidence)

\* C26: for a video with at least one extracted frame, analyze_video reports
\* hasSteganography = true exactly when at least one analyzed frame was
\* suspicious or the audio sub-verdict flags a detection; with no suspicious
\* frame and no audio detection the verdict is no detection, confidence 0.
C26_VideoFlag ==
    \A c \in Calls :
        /\ entry[c] = "media" /\ pc[c] = "done" /\ "video" \in ran[c]
        /\ ~HasKey(result[c], "error") /\ vid[c].n_frames > 0
        => LET audio_flag == /\ vid[c].audio_result # None
                             /\ Get(vid[c].audio_result, "hasSteganography", FALSE)
           IN  /\ result[c].suspiciousFrames = vid[c].suspicious_frames
               /\ result[c].hasSteganography
                      = (vid[c].suspicious_frames > 0 \/ audio_flag)
               /\ vid[c].suspicious_frames = 0 /\ ~audio_flag =>
                      /\ ~result[c].hasSteganography
                      /\ result[c].confidence = Zero

\* Witness of C26: one suspicious frame among ten, no audio detection: the
\* lowest band, and a detection.
C26_Witness ==
    \E c \in Calls :
        /\ entry[c] = "media" /\ pc[c] = "done" /\ "video" \in ran[c]
        /\ ~HasKey(result[c], "error")
        /\ vid[c].n_frames = 10 /\ vid[c].suspicious_frames = 1
        /\ vid[c].audio_result = None
        /\ result[c].hasSteganography

\* C27 as stated: a detection in the audio track never lowers the final
\* confidence of analyze_video: it is at least the confidence the same frames
\* give without audio detection.
C27_Original ==
    \A c \in Calls :
        /\ entry[c] = "media" /\ pc[c] = "done" /\ "video" \in ran[c]
        /\ ~HasKey(result[c], "error") /\ vid[c].n_frames > 0
        /\ vid[c].audio_result # None
        /\ Get(vid[c].audio_result, "hasSteganography", FALSE)
        => RGe(result[c].confidence,
               VideoConfidence(vid[c].suspicious_frames, vid[c].n_frames)[2])

\* C27, amended: with a detection in the audio track the final confidence is
\* never below the smaller of the frames' confidence v and the audio
\* confidence, and is at least v whenever the audio confidence is at least v.
C27_AudioNeverBelowBoth ==
    \A c \in Calls :
        /\ entry[c] = "media" /\ pc[c] = "done" /\ "video" \in ran[c]
        /\ ~HasKey(result[c], "error") /\ vid[c].n_frames > 0
        /\ vid[c].audio_result # None
        /\ Get(vid[c].audio_result, "hasSteganography", FALSE)
        => LET v == VideoConfidence(vid[c].suspicious_frames, vid[c].n_frames)[2]
               a == Get(vid[c].audio_result, "confidence", Zero)
           IN  /\ RGe(result[c].confidence, RMin(v, a))
               /\ RGe(a, v) => RGe(result[c].confidence, v)

\* Witness of C27: every frame suspicious (v = 1) and an audio detection of
\* confidence 0.5: the final confidence lies between the two.
C27_Witness ==
    \E c \in Calls :
        /\ entry[c] = "media" /\ pc[c] = "done" /\ "video" \in ran[c]
        /\ ~HasKey(result[c], "error")
        /\ vid[c].n_frames > 0 /\ vid[c].suspicious_frames = vid[c].n_frames
        /\ vid[c].audio_result # None
        /\ Get(vid[c].audio_result, "hasSteganography", FALSE)
        /\ Get(vid[c].audio_result, "confidence", Zero) = Milli(500)
        /\ RLt(result[c].confidence, One)
        /\ RGt(result[c].confidence, Milli(500))

\* C28: in every successful result of analyze_media_file, isSafe is true
\* exactly when threatLevel is "none" and exactly when the warnings list is
\* empty; threatLevel is one of the strings none, low, medium, high and
\* never a number; and no stage (metadata, steganography, YARA, codec, the
\* final conversion) leaves the level lower than it found it.
C28_StatusConsistent ==
    \A c \in Calls :
        pc[c] = "done" /\ entry[c] = "security" /\ ~env[c].failed =>
            LET st == env[c].results.securityStatus
                stages == env[c].stages
            IN  /\ st.isSafe <=> st.threatLevel = StrLevel("none")
                /\ st.isSafe <=> st.warnings = <<>>
                /\ st.threatLevel \in
                       {StrLevel(l) : l \in {"none", "low", "medium", "high"}}
                /\ \A i \in 1..5 :
                       LevelRank(stages[i + 1].threatLevel)
                           >= LevelRank(stages[i].threatLevel)

\* A video with suspicious metadata, a YARA match and an uncommon codec:
\* the codec stage made the level the int 2 and the result carries "medium"
\* with three warnings.
C28_Witness ==
    \E c \in Calls :
        /\ pc[c] = "done" /\ entry[c] = "security" /\ ~env[c].failed
        /\ env[c].outcomes.suspicious_fields
        /\ env[c].outcomes.yara_rules /\ env[c].outcomes.yara_matches
        /\ env[c].outcomes.uncommon_codec
        /\ env[c].stages[5].threatLevel = IntLevel(2)
        /\ env[c].results.securityStatus.threatLevel = StrLevel("medium")
        /\ Len(env[c].results.securityStatus.warnings) = 3
        /\ ~env[c].results.securityStatus.isSafe

\* C29 as stated: whenever the YARA scan reports a match or an uncommon
\* codec is detected, the final threatLevel is at least "medium", also when
\* the metadata stage had set "low".
C29_Original ==
    \A c \in Calls :
        pc[c] = "done" /\ entry[c] = "security" /\ ~env[c].failed =>
            LET o == env[c].outcomes
                file_ext == Lower(SplitExt(fileName[c]))
            IN  \/ o.yara_rules /\ o.yara_matches
                \/ file_ext \in AudioExts \cup SecVideoExts /\ o.uncommon_codec
                => LevelRank(env[c].results.securityStatus.threatLevel) >= 2

\* C30 as stated: for every file name, the fileType of analyze_media_file
\* equals the mediaType of the steganography sub-result that
\* detect_media_steganography gives for the same name.
C30_Original ==
    \A c \in Calls :
        pc[c] = "done" /\ entry[c] = "security" /\ ~env[c].failed =>
            env[c].results.fileType
                = env[c].results.analysis.steganography.mediaType

====
